---- MODULE Spec2Model ----
(***************************************************************************)
(* A model of cbor-gen (src/gen.go): the schema intake (ParseTypeInfo),    *)
(* the generation-time checks of the emit* functions, and the behaviour of *)
(* the encoders and decoders they emit, in tuple form and named-map form.  *)
(*                                                                         *)
(* Bytes are the numbers 0..255.  A 64-bit word (a Go uint64 or int64) is  *)
(* its 8 bytes, big-endian, so that 64-bit wrap-around arithmetic is exact.*)
(* A Go string value is the sequence of its bytes; the identifiers of the  *)
(* schema (field names, tags) are TLA+ strings, turned into bytes by Utf8. *)
(***************************************************************************)
EXTENDS Integers, Sequences, FiniteSets, TLC

\* ------------------------------------------------------------- constants

\* const MaxLength = 8192
MaxLength == 8192

\* const ByteArrayMaxLen = 2 << 20
ByteArrayMaxLen == 2097152

\* the literal 4096 of the emitted map encoder and decoder
MaxMapLen == 4096

\* the literal 256 of the emitted big.Int decoder
MaxBigIntLen == 256

\* the major types of the header byte (its 3 high bits)
MajUnsignedInt == 0
MajNegativeInt == 1
MajByteString == 2
MajTextString == 3
MajArray == 4
MajMap == 5
MajTag == 6
MajOther == 7

\* cbg.CborNull: the one byte 0xF6 (major 7, value 22)
CborNull == <<246>>

\* ------------------------------------------------------- 64-bit words

Byte == 0..255

\* the uint64 of a small natural number (below 2^31)
U64(n) ==
  <<0, 0, 0, 0, (n \div 16777216) % 256, (n \div 65536) % 256,
    (n \div 256) % 256, n % 256>>

\* the leading k bytes of the word are zero
ZeroPrefix(w, k) == \A i \in 1..k : w[i] = 0

\* the word is below 2^31, that is, a number of the model
IsSmall(w) == ZeroPrefix(w, 4) /\ w[5] < 128

\* the number of a small word
ToNat(w) == w[5] * 16777216 + w[6] * 65536 + w[7] * 256 + w[8]

RECURSIVE LessFrom(_, _, _)
LessFrom(a, b, i) ==
  IF i > 8 THEN FALSE
  ELSE IF a[i] # b[i] THEN a[i] < b[i]
  ELSE LessFrom(a, b, i + 1)

\* a < b, both read as unsigned
U64Less(a, b) == LessFrom(a, b, 1)

\* a > n for a small natural number n, as in `extra > 8192`
U64GreaterNat(a, n) == U64Less(U64(n), a)

RECURSIVE Carry(_, _, _)
Carry(a, b, i) ==
  IF i > 8 THEN 0 ELSE (a[i] + b[i] + Carry(a, b, i + 1)) \div 256

\* a + b modulo 2^64
U64Add(a, b) == [i \in 1..8 |-> (a[i] + b[i] + Carry(a, b, i + 1)) % 256]

U64Not(a) == [i \in 1..8 |-> 255 - a[i]]

\* -a modulo 2^64 (Go's unary minus on an int64)
U64Neg(a) == U64Add(U64Not(a), U64(1))

\* a - b modulo 2^64
U64Sub(a, b) == U64Add(a, U64Neg(b))

\* the word read as an int64 is negative
I64Negative(a) == a[1] >= 128

\* int64(-1)
I64MinusOne == U64Not(U64(0))

\* ------------------------------------------- runtime: headers (cbg)

\* cbg.CborEncodeMajorType: the shortest header of major type t and value w
CborEncodeMajorType(t, w) ==
  IF ZeroPrefix(w, 7) /\ w[8] < 24 THEN <<t * 32 + w[8]>>
  ELSE IF ZeroPrefix(w, 7) THEN <<t * 32 + 24, w[8]>>
  ELSE IF ZeroPrefix(w, 6) THEN <<t * 32 + 25, w[7], w[8]>>
  ELSE IF ZeroPrefix(w, 4) THEN <<t * 32 + 26, w[5], w[6], w[7], w[8]>>
  ELSE <<t * 32 + 27>> \o w

\* a header that could not be read; pos is where the reader is left
NoHeader(pos) == [err |-> TRUE, maj |-> 0, extra |-> U64(0), pos |-> pos]

\* cbg.CborReadHeaderBuf: one canonical header of buf after pos consumed
\* bytes: its major type, its value and the position after it.  A header
\* that is cut short leaves the reader at the end of buf; a value that a
\* shorter header holds is refused.
CborReadHeader(buf, pos) ==
  IF pos + 1 > Len(buf) THEN NoHeader(pos)
  ELSE
    LET b == buf[pos + 1]
        maj == b \div 32
        low == b % 32
        z == 0
        Got(w, n) == [err |-> FALSE, maj |-> maj, extra |-> w, pos |-> pos + n]
    IN  IF low < 24 THEN Got(U64(low), 1)
        ELSE IF low = 24 THEN
          IF pos + 2 > Len(buf) THEN NoHeader(Len(buf))
          ELSE IF buf[pos + 2] < 24 THEN NoHeader(pos + 2)
          ELSE Got(U64(buf[pos + 2]), 2)
        ELSE IF low = 25 THEN
          IF pos + 3 > Len(buf) THEN NoHeader(Len(buf))
          ELSE IF buf[pos + 2] = 0 THEN NoHeader(pos + 3)
          ELSE Got(<<z, z, z, z, z, z, buf[pos + 2], buf[pos + 3]>>, 3)
        ELSE IF low = 26 THEN
          IF pos + 5 > Len(buf) THEN NoHeader(Len(buf))
          ELSE IF buf[pos + 2] = 0 /\ buf[pos + 3] = 0 THEN NoHeader(pos + 5)
          ELSE Got(<<z, z, z, z, buf[pos + 2], buf[pos + 3], buf[pos + 4],
                     buf[pos + 5]>>, 5)
        ELSE IF low = 27 THEN
          IF pos + 9 > Len(buf) THEN NoHeader(Len(buf))
          ELSE IF ZeroPrefix(SubSeq(buf, pos + 2, pos + 9), 4)
          THEN NoHeader(pos + 9)
          ELSE Got(SubSeq(buf, pos + 2, pos + 9), 9)
        ELSE NoHeader(pos + 1)

\* ------------------------------------------------- host types (reflect)

\* a reflect.Type: its Kind and what the kind needs
Basic(k) == [kind |-> k]
Named(n) == [kind |-> "struct", name |-> n]
SliceOf(e) == [kind |-> "slice", elem |-> e]
ArrayOf(n, e) == [kind |-> "array", len |-> n, elem |-> e]
PtrTo(e) == [kind |-> "ptr", elem |-> e]
MapOf(k, e) == [kind |-> "map", key |-> k, elem |-> e]

bigIntType == Named("big.Int")
cidType == Named("cid.Cid")
deferredType == Named("cbg.Deferred")

\* a struct field as reflect gives it: its name, the value of its cborgen
\* tag ("" when it has none) and its type
HostField(n, tag, t) == [Name |-> n, Tag |-> tag, Type |-> t]

\* the length of the fixed arrays of the record types below
FixedLen == 2

\* The record types handed to the generator: those of src/testing/types.go
\* (with fewer fields and shorter arrays), and one record for each field
\* shape that the generator is to refuse.
HostType(n) ==
  CASE n = "SimpleTypeOne" ->
         <<HostField("Foo", "", Basic("string")),
           HostField("Value", "", Basic("uint64")),
           HostField("Binary", "", SliceOf(Basic("uint8"))),
           HostField("Signed", "", Basic("int64"))>>
    [] n = "Scalars" ->
         <<HostField("Small", "", Basic("uint8")),
           HostField("Flag", "", Basic("bool")),
           HostField("Signed", "", Basic("int64"))>>
    [] n = "FixedArrays" ->
         <<HostField("Bytes", "", ArrayOf(FixedLen, Basic("uint8"))),
           HostField("Uint64", "", ArrayOf(FixedLen, Basic("uint64")))>>
    [] n = "SimpleTypeTwo" ->
         <<HostField("Stuff", "", PtrTo(Named("SimpleTypeTwo"))),
           HostField("Others", "", SliceOf(Basic("uint64"))),
           HostField("SignedOthers", "", SliceOf(Basic("int64"))),
           HostField("Test", "", SliceOf(SliceOf(Basic("uint8")))),
           HostField("Pizza", "", PtrTo(Basic("uint64")))>>
    [] n = "SimpleStructV1" ->
         <<HostField("OldStr", "", Basic("string")),
           HostField("OldNum", "", Basic("uint64")),
           HostField("OldPtr", "", PtrTo(cidType)),
           HostField("OldStruct", "", Named("SimpleTypeOne"))>>
    [] n = "SimpleStructV2" ->
         <<HostField("OldStr", "", Basic("string")),
           HostField("NewStr", "", Basic("string")),
           HostField("OldNum", "", Basic("uint64")),
           HostField("NewNum", "", Basic("uint64")),
           HostField("OldPtr", "", PtrTo(cidType)),
           HostField("NewPtr", "", PtrTo(cidType)),
           HostField("OldStruct", "", Named("SimpleTypeOne")),
           HostField("NewStruct", "", Named("SimpleTypeOne"))>>
    [] n = "DeferredContainer" ->
         <<HostField("Stuff", "", PtrTo(Named("SimpleTypeOne"))),
           HostField("Deferred", "", PtrTo(deferredType)),
           HostField("Value", "", Basic("uint64"))>>
    [] n = "NeedScratchForMap" ->
         <<HostField("Thing", "", Basic("bool"))>>
    [] n = "RenamedFields" ->
         <<HostField("Foo", "foo", Basic("int64")),
           HostField("Bar", "beep", Basic("string"))>>
    [] n = "BigField" ->
         <<HostField("LargeBytes", "maxlen=10000000", SliceOf(Basic("uint8")))>>
    [] n = "Maps" ->
         <<HostField("M", "", MapOf(Basic("string"), Named("SimpleTypeOne"))),
           HostField("P", "", MapOf(Basic("string"), PtrTo(Named("SimpleTypeOne"))))>>
    [] n = "Bigs" ->
         <<HostField("Int", "", PtrTo(bigIntType)),
           HostField("Link", "", cidType),
           HostField("Recs", "", SliceOf(Named("SimpleTypeOne")))>>
    \* a record with a sequence of optional records
    [] n = "Optionals" ->
         <<HostField("Recs", "", SliceOf(PtrTo(Named("NeedScratchForMap"))))>>
    [] n = "Unexported" ->
         <<HostField("Pub", "", Basic("uint64")),
           HostField("priv", "", Basic("uint64")),
           HostField("Last", "", Basic("bool"))>>
    [] n = "Padded" ->
         <<HostField("Pub", "", Basic("uint64")),
           HostField("_pad", "", Basic("uint64"))>>
    \* a record whose one field is a big.Int, and a record with no field
    \* that is exported
    [] n = "BigOnly" -> <<HostField("Int", "", PtrTo(bigIntType))>>
    [] n = "Hidden" -> <<HostField("priv", "", Basic("uint64"))>>
    [] n = "PtrString" -> <<HostField("X", "", PtrTo(Basic("string")))>>
    [] n = "PtrUint8" -> <<HostField("X", "", PtrTo(Basic("uint8")))>>
    [] n = "PtrInt64" -> <<HostField("X", "", PtrTo(Basic("int64")))>>
    [] n = "PtrBool" -> <<HostField("X", "", PtrTo(Basic("bool")))>>
    [] n = "PtrBytes" -> <<HostField("X", "", PtrTo(SliceOf(Basic("uint8"))))>>
    [] n = "PtrSlice" -> <<HostField("X", "", PtrTo(SliceOf(Basic("uint64"))))>>
    [] n = "PtrMap" ->
         <<HostField("X", "", PtrTo(MapOf(Basic("string"), Named("SimpleTypeOne"))))>>
    [] n = "PtrPtr" -> <<HostField("X", "", PtrTo(PtrTo(Basic("uint64"))))>>
    [] n = "IntKeyMap" ->
         <<HostField("X", "", MapOf(Basic("uint64"), Named("SimpleTypeOne")))>>
    [] n = "Float" -> <<HostField("X", "", Basic("float64"))>>
    [] n = "Complex" -> <<HostField("X", "", Basic("complex128"))>>
    [] n = "Chan" -> <<HostField("X", "", Basic("chan"))>>

\* the record types whose fields all have a supported shape
GoodTypes ==
  {"SimpleTypeOne", "Scalars", "FixedArrays", "SimpleTypeTwo",
   "SimpleStructV1", "SimpleStructV2", "DeferredContainer",
   "NeedScratchForMap", "RenamedFields", "BigField", "Maps", "Bigs",
   "Optionals"}

\* the record types with a field the generator is to refuse
BadTypes ==
  {"PtrString", "PtrUint8", "PtrInt64", "PtrBool", "PtrBytes", "PtrSlice",
   "PtrMap", "PtrPtr", "IntKeyMap", "Float", "Complex", "Chan"}

\* record types with fields that are not exported: a lower-case name, and
\* a name that begins with an underscore
MixedTypes == {"Unexported", "Padded"}

\* record types none of whose fields is written through the scratch
\* buffer; their codecs are emitted and not run
BareTypes == {"BigOnly", "Hidden"}

TypeNames == GoodTypes \cup BadTypes \cup MixedTypes \cup BareTypes

\* the bytes of the identifiers of the schema
Utf8(s) ==
  CASE s = "Foo" -> <<70, 111, 111>>
    [] s = "Value" -> <<86, 97, 108, 117, 101>>
    [] s = "Binary" -> <<66, 105, 110, 97, 114, 121>>
    [] s = "Signed" -> <<83, 105, 103, 110, 101, 100>>
    [] s = "Small" -> <<83, 109, 97, 108, 108>>
    [] s = "Flag" -> <<70, 108, 97, 103>>
    [] s = "Bytes" -> <<66, 121, 116, 101, 115>>
    [] s = "Uint64" -> <<85, 105, 110, 116, 54, 52>>
    [] s = "Stuff" -> <<83, 116, 117, 102, 102>>
    [] s = "Others" -> <<79, 116, 104, 101, 114, 115>>
    [] s = "SignedOthers" -> <<83, 105, 103, 110, 101, 100, 79, 116, 104, 101, 114, 115>>
    [] s = "Test" -> <<84, 101, 115, 116>>
    [] s = "Pizza" -> <<80, 105, 122, 122, 97>>
    [] s = "OldStr" -> <<79, 108, 100, 83, 116, 114>>
    [] s = "NewStr" -> <<78, 101, 119, 83, 116, 114>>
    [] s = "OldNum" -> <<79, 108, 100, 78, 117, 109>>
    [] s = "NewNum" -> <<78, 101, 119, 78, 117, 109>>
    [] s = "OldPtr" -> <<79, 108, 100, 80, 116, 114>>
    [] s = "NewPtr" -> <<78, 101, 119, 80, 116, 114>>
    [] s = "OldStruct" -> <<79, 108, 100, 83, 116, 114, 117, 99, 116>>
    [] s = "NewStruct" -> <<78, 101, 119, 83, 116, 114, 117, 99, 116>>
    [] s = "Deferred" -> <<68, 101, 102, 101, 114, 114, 101, 100>>
    [] s = "Thing" -> <<84, 104, 105, 110, 103>>
    [] s = "Bar" -> <<66, 97, 114>>
    [] s = "foo" -> <<102, 111, 111>>
    [] s = "beep" -> <<98, 101, 101, 112>>
    [] s = "LargeBytes" -> <<76, 97, 114, 103, 101, 66, 121, 116, 101, 115>>
    [] s = "maxlen=10000000" ->
         <<109, 97, 120, 108, 101, 110, 61, 49, 48, 48, 48, 48, 48, 48, 48>>
    [] s = "M" -> <<77>>
    [] s = "P" -> <<80>>
    [] s = "Int" -> <<73, 110, 116>>
    [] s = "Link" -> <<76, 105, 110, 107>>
    [] s = "X" -> <<88>>
    [] s = "Recs" -> <<82, 101, 99, 115>>
    [] s = "Pub" -> <<80, 117, 98>>
    [] s = "priv" -> <<112, 114, 105, 118>>
    [] s = "Last" -> <<76, 97, 115, 116>>
    [] s = "_pad" -> <<95, 112, 97, 100>>

\* ---------------------------------------------------- schema intake

\* strings.ToUpper of one ASCII byte
ToUpper(b) == IF b \in 97..122 THEN b - 32 ELSE b

\* nameIsExported: strings.ToUpper(name[0:1]) == name[0:1]
nameIsExported(name) == ToUpper(Utf8(name)[1]) = Utf8(name)[1]

\* the Field that ParseTypeInfo appends for the struct field hf
ParseField(hf) ==
  LET pointer == hf.Type.kind = "ptr"
  IN  [Name |-> hf.Name,
       MapKey |-> IF hf.Tag # "" THEN hf.Tag ELSE hf.Name,
       Pointer |-> pointer,
       Type |-> IF pointer THEN hf.Type.elem ELSE hf.Type]

RECURSIVE ParseFieldsPrepended(_, _)
\* the fields of a GenTypeInfo each put before the ones parsed so far
ParseFieldsPrepended(hfs, i) ==
  IF i > Len(hfs) THEN <<>>
  ELSE ParseFieldsPrepended(hfs, i + 1)
       \o (IF nameIsExported(hfs[i].Name) THEN <<ParseField(hfs[i])>> ELSE <<>>)

RECURSIVE ParseFields(_, _)
ParseFields(hfs, i) ==
  IF i > Len(hfs) THEN <<>>
  ELSE (IF nameIsExported(hfs[i].Name) THEN <<ParseField(hfs[i])>> ELSE <<>>)
       \o ParseFields(hfs, i + 1)

\* ParseTypeInfo: the GenTypeInfo of the record type named n
ParseTypeInfo(n) == [Name |-> n, Fields |-> ParseFields(HostType(n), 1)]

\* GenTypeInfo.TupleHeader
TupleHeader(gti) == CborEncodeMajorType(MajArray, U64(Len(gti.Fields)))

\* GenTypeInfo.MapHeader
MapHeader(gti) == CborEncodeMajorType(MajMap, U64(Len(gti.Fields)))

\* --------------------------------------- generation: what is refused

\* Field{Name: "v", Type: e}: the field the emitters make up for an element
SubField(e) == [Name |-> "v", MapKey |-> "", Pointer |-> FALSE, Type |-> e]

\* emitCborMarshalStringField returns an error
emitCborMarshalStringFieldFails(f) == f.Pointer

\* emitCborMarshalStructField returns an error: never
emitCborMarshalStructFieldFails(f) == FALSE

\* emitCborMarshalUint64Field returns an error: never
emitCborMarshalUint64FieldFails(f) == FALSE

\* emitCborMarshalUint8Field returns an error
emitCborMarshalUint8FieldFails(f) == f.Pointer

\* emitCborMarshalInt64Field returns an error
emitCborMarshalInt64FieldFails(f) == f.Pointer

\* emitCborMarshalBoolField returns an error: never (f.Pointer is not read)
emitCborMarshalBoolFieldFails(f) == FALSE

\* emitCborMarshalMapField returns an error (f.Pointer is not read)
emitCborMarshalMapFieldFails(f) ==
  IF f.Type.key.kind # "string" THEN TRUE
  ELSE IF f.Type.elem.kind = "ptr" THEN f.Type.elem.elem.kind # "struct"
  ELSE f.Type.elem.kind # "struct"

RECURSIVE emitCborMarshalSliceFieldFails(_)
\* emitCborMarshalSliceField returns an error
emitCborMarshalSliceFieldFails(f) ==
  IF f.Pointer THEN TRUE
  ELSE IF f.Type.elem.kind = "uint8" THEN FALSE
  ELSE
    LET e == IF f.Type.elem.kind = "ptr" THEN f.Type.elem.elem ELSE f.Type.elem
    IN  CASE e.kind = "struct" -> FALSE
          [] e.kind = "uint64" -> FALSE
          [] e.kind = "uint8" -> FALSE
          [] e.kind = "int64" -> emitCborMarshalInt64FieldFails(SubField(e))
          [] e.kind = "slice" -> emitCborMarshalSliceFieldFails(SubField(e))
          [] OTHER -> TRUE

\* the switch on f.Type.Kind() of the two emitCborMarshalStruct* functions
emitCborMarshalFieldFails(f) ==
  CASE f.Type.kind = "string" -> emitCborMarshalStringFieldFails(f)
    [] f.Type.kind = "struct" -> emitCborMarshalStructFieldFails(f)
    [] f.Type.kind = "uint64" -> emitCborMarshalUint64FieldFails(f)
    [] f.Type.kind = "uint8" -> emitCborMarshalUint8FieldFails(f)
    [] f.Type.kind = "int64" -> emitCborMarshalInt64FieldFails(f)
    [] f.Type.kind \in {"array", "slice"} -> emitCborMarshalSliceFieldFails(f)
    [] f.Type.kind = "bool" -> emitCborMarshalBoolFieldFails(f)
    [] f.Type.kind = "map" -> emitCborMarshalMapFieldFails(f)
    [] OTHER -> TRUE

\* emitCborMarshalStructTuple returns an error
emitCborMarshalStructTupleFails(gti) ==
  \E i \in 1..Len(gti.Fields) : emitCborMarshalFieldFails(gti.Fields[i])

\* emitCborMarshalStructMap returns an error: the key of a field is emitted
\* by emitCborMarshalStringField(Field{Name: key}), then the field
emitCborMarshalStructMapFails(gti) ==
  \E i \in 1..Len(gti.Fields) :
    \/ emitCborMarshalStringFieldFails(SubField(Basic("string")))
    \/ emitCborMarshalFieldFails(gti.Fields[i])

\* emitCborUnmarshalStringField returns an error
emitCborUnmarshalStringFieldFails(f) == f.Pointer

\* emitCborUnmarshalMapField returns an error
emitCborUnmarshalMapFieldFails(f) ==
  IF f.Type.key.kind # "string" THEN TRUE
  ELSE IF f.Type.elem.kind = "ptr" THEN f.Type.elem.elem.kind # "struct"
  ELSE f.Type.elem.kind # "struct"

RECURSIVE emitCborUnmarshalSliceFieldFails(_)
\* emitCborUnmarshalSliceField returns an error
emitCborUnmarshalSliceFieldFails(f) ==
  LET e == IF f.Type.elem.kind = "ptr" THEN f.Type.elem.elem ELSE f.Type.elem
  IN  CASE e.kind = "uint8" -> FALSE
        [] e.kind = "struct" -> FALSE
        [] e.kind = "uint64" -> FALSE
        [] e.kind = "int64" -> FALSE
        [] e.kind \in {"array", "slice"} ->
             emitCborUnmarshalSliceFieldFails(SubField(e))
        [] OTHER -> TRUE

\* the switch on f.Type.Kind() of the two emitCborUnmarshalStruct* functions
emitCborUnmarshalFieldFails(f) ==
  CASE f.Type.kind = "string" -> emitCborUnmarshalStringFieldFails(f)
    [] f.Type.kind \in {"struct", "uint64", "uint8", "int64", "bool"} -> FALSE
    [] f.Type.kind \in {"array", "slice"} -> emitCborUnmarshalSliceFieldFails(f)
    [] f.Type.kind = "map" -> emitCborUnmarshalMapFieldFails(f)
    [] OTHER -> TRUE

\* emitCborUnmarshalStructTuple returns an error
emitCborUnmarshalStructTupleFails(gti) ==
  \E i \in 1..Len(gti.Fields) : emitCborUnmarshalFieldFails(gti.Fields[i])

\* emitCborUnmarshalStructMap returns an error
emitCborUnmarshalStructMapFails(gti) ==
  \E i \in 1..Len(gti.Fields) : emitCborUnmarshalFieldFails(gti.Fields[i])

\* GenTupleEncodersForType returns an error
GenTupleEncodersForTypeFails(gti) ==
  emitCborMarshalStructTupleFails(gti) \/ emitCborUnmarshalStructTupleFails(gti)

\* GenMapEncodersForType returns an error
GenMapEncodersForTypeFails(gti) ==
  emitCborMarshalStructMapFails(gti) \/ emitCborUnmarshalStructMapFails(gti)

\* ------------------------------------------------------------ values
\* The value of a type: a string or []byte is the sequence of its bytes, an
\* integer its word, a slice or array the sequence of its elements, a map a
\* function on its keys, a pointer <<>> (nil) or <<v>>, a big.Int its sign
\* and its magnitude (big-endian, no leading zero), a cid.Cid its bytes
\* (<<>> is cid.Undef), a Deferred its Raw bytes, and a record a function on
\* the names of its fields.

\* the most elements a slice of the values below holds
MaxSeqLen == 2

\* the nesting of records in the values below
MaxDepth == 1

\* the keys of the map values below: "a", "aa", "b"
KeyUniverse == {<<97>>, <<97, 97>>, <<98>>}

\* the key sets of the map values below
KeySets == {{<<98>>}, {<<98>>, <<97>>}, KeyUniverse}

U64Max == U64Not(U64(0))
I64Max == <<127, 255, 255, 255, 255, 255, 255, 255>>
I64Min == <<128, 0, 0, 0, 0, 0, 0, 0>>

\* the names of the fields of the record type n
FieldNames(n) == {HostType(n)[i].Name : i \in 1..Len(HostType(n))}

\* the type of the field fn of the record type n
FieldType(n, fn) ==
  LET i == CHOOSE j \in 1..Len(HostType(n)) : HostType(n)[j].Name = fn
  IN  HostType(n)[i].Type

RECURSIVE ZeroOf(_)
\* the zero value of a type: what *t = T{} leaves in each field
ZeroOf(t) ==
  CASE t.kind = "ptr" -> <<>>
    [] t.kind = "string" -> <<>>
    [] t.kind \in {"uint64", "uint8", "int64"} -> U64(0)
    [] t.kind = "bool" -> FALSE
    [] t.kind = "slice" -> <<>>
    [] t.kind = "array" ->
         [i \in 1..t.len |-> IF t.elem.kind = "uint8" THEN 0 ELSE ZeroOf(t.elem)]
    [] t.kind = "map" -> <<>>
    [] t.kind = "struct" ->
         IF t = bigIntType THEN [neg |-> FALSE, mag |-> <<>>]
         ELSE IF t = cidType THEN <<>>
         ELSE IF t = deferredType THEN <<>>
         ELSE [fn \in FieldNames(t.name) |-> ZeroOf(FieldType(t.name, fn))]

\* a defined CID, as its bytes
SomeCid == <<1, 85>>

RECURSIVE BaseOf(_)
\* the plainest value of a type that an encoder takes: the zero value, with
\* a defined CID where the type holds a cid.Cid itself
BaseOf(t) ==
  CASE t.kind = "array" ->
         [i \in 1..t.len |-> IF t.elem.kind = "uint8" THEN 0 ELSE BaseOf(t.elem)]
    [] t.kind = "struct" ->
         IF t = cidType THEN SomeCid
         ELSE IF t \in {bigIntType, deferredType} THEN ZeroOf(t)
         ELSE [fn \in FieldNames(t.name) |-> BaseOf(FieldType(t.name, fn))]
    [] OTHER -> ZeroOf(t)

RECURSIVE Dom(_, _)
\* the values of type t that the model encodes, records nested d deep
Dom(t, d) ==
  CASE t.kind = "ptr" -> {<<>>} \cup {<<v>> : v \in Dom(t.elem, d)}
    [] t.kind = "string" -> {<<>>, <<99, 97, 116>>}
    [] t.kind = "uint64" -> {U64(0), U64(7), U64(500), I64Min, U64Max}
    [] t.kind = "uint8" -> {U64(0), U64(255)}
    [] t.kind = "int64" ->
         {I64Min, I64MinusOne, U64(0), U64(1), I64Max, U64(24),
          U64Not(U64(24))}
    [] t.kind = "bool" -> {FALSE, TRUE}
    [] t.kind = "slice" ->
         IF t.elem.kind = "uint8"
         THEN {<<>>, <<255>>} \cup {[i \in 1..MaxSeqLen |-> i]}
         ELSE {<<>>} \cup {<<v>> : v \in Dom(t.elem, d)}
                \cup {[i \in 1..MaxSeqLen |-> IF i = 1 THEN v ELSE BaseOf(t.elem)] :
                        v \in Dom(t.elem, d)}
    [] t.kind = "array" ->
         IF t.elem.kind = "uint8"
         THEN {[i \in 1..t.len |-> 0], [i \in 1..t.len |-> i]}
         ELSE {[i \in 1..t.len |-> IF i = j THEN v ELSE BaseOf(t.elem)] :
                 j \in 1..t.len, v \in Dom(t.elem, d)}
    [] t.kind = "map" ->
         {<<>>} \cup
         {[k \in K |-> IF k = <<98>> THEN v ELSE BaseOf(t.elem)] :
            K \in KeySets, v \in Dom(t.elem, d)}
    [] t.kind = "struct" ->
         IF t = bigIntType
         THEN {[neg |-> FALSE, mag |-> <<>>], [neg |-> FALSE, mag |-> <<1>>],
               [neg |-> TRUE, mag |-> <<1>>], [neg |-> FALSE, mag |-> <<1, 0>>]}
         ELSE IF t = cidType THEN {SomeCid, <<1>>}
         ELSE IF t = deferredType THEN {<<7>>, <<130, 1, 2>>, CborNull}
         ELSE IF d = 0 THEN {BaseOf(t)}
         ELSE {BaseOf(t)} \cup
              UNION {{[BaseOf(t) EXCEPT ![fn] = v] :
                        v \in Dom(FieldType(t.name, fn), d - 1)} :
                     fn \in FieldNames(t.name)}

\* the records of type n that the model encodes
Values(n) == Dom(Named(n), MaxDepth)

\* ------------------------------------------------- the sink (io.Writer)
\* The sink of an encoder: the bytes written, whether a write has failed,
\* and cap, the number of bytes the sink takes before its writes fail.
\* Every write of the emitted code is followed by `if err != nil { return
\* err }`: once a write has failed nothing more is written, so a write to a
\* sink that has failed leaves it as it is.

\* w.Write(bs)
Write(s, bs) ==
  IF s.err THEN s
  ELSE IF Len(s.out) + Len(bs) > s.cap
  THEN [s EXCEPT !.out = @ \o SubSeq(bs, 1, s.cap - Len(s.out)), !.err = TRUE]
  ELSE [s EXCEPT !.out = @ \o bs]

\* return xerrors.Errorf(...): the encoder gives up without writing
Fail(s) == [s EXCEPT !.err = TRUE]

\* cbg.WriteMajorTypeHeaderBuf / cbg.CborWriteHeader
WriteMajorTypeHeader(s, maj, w) == Write(s, CborEncodeMajorType(maj, w))

\* cbg.WriteBool: major 7, value 21 (true) or 20 (false)
WriteBool(s, b) == Write(s, <<IF b THEN 245 ELSE 244>>)

\* cbg.WriteCidBuf: tag 42, then the byte string of a zero byte and the CID
WriteCid(s, c) ==
  IF c = <<>> THEN Fail(WriteMajorTypeHeader(s, MajTag, U64(42)))
  ELSE Write(WriteMajorTypeHeader(WriteMajorTypeHeader(s, MajTag, U64(42)),
                                  MajByteString, U64(Len(c) + 1)),
             <<0>> \o c)

\* ---------------------------------------------------- sort.Strings

RECURSIVE StrLessFrom(_, _, _)
StrLessFrom(a, b, i) ==
  IF i > Len(b) THEN FALSE
  ELSE IF i > Len(a) THEN TRUE
  ELSE IF a[i] # b[i] THEN a[i] < b[i]
  ELSE StrLessFrom(a, b, i + 1)

\* a < b for Go strings: byte by byte, a proper prefix first
StrLess(a, b) == StrLessFrom(a, b, 1)

RECURSIVE InsertString(_, _)
InsertString(k, keys) ==
  IF Len(keys) = 0 THEN <<k>>
  ELSE IF StrLess(k, Head(keys)) THEN <<k>> \o keys
  ELSE <<Head(keys)>> \o InsertString(k, Tail(keys))

RECURSIVE SortStrings(_)
\* sort.Strings(keys)
SortStrings(keys) ==
  IF Len(keys) = 0 THEN <<>>
  ELSE InsertString(Head(keys), SortStrings(Tail(keys)))

\* for k := range m { keys = append(keys, k) }: Go ranges over a map in an
\* order of its own; ord, a sequence of all keys, gives the order of a run
RangeKeys(m, ord) == SelectSeq(ord, LAMBDA k : k \in DOMAIN m)

\* ------------------------------------------------ the emitted encoders
\* Each operator is the code its emit function writes into MarshalCBOR, run
\* on the value v of the field f with the sink s; it gives the sink after.
\* form is "tuple" or "map": the form the records of a run are generated in.

\* the code of emitCborMarshalStringField
MarshalStringField(v, s) ==
  IF Len(v) > MaxLength THEN Fail(s)
  ELSE Write(WriteMajorTypeHeader(s, MajTextString, U64(Len(v))), v)

\* the code of emitCborMarshalUint64Field
MarshalUint64Field(f, v, s) ==
  IF f.Pointer
  THEN IF v = <<>> THEN Write(s, CborNull)
       ELSE WriteMajorTypeHeader(s, MajUnsignedInt, v[1])
  ELSE WriteMajorTypeHeader(s, MajUnsignedInt, v)

\* the code of emitCborMarshalUint8Field
MarshalUint8Field(v, s) == WriteMajorTypeHeader(s, MajUnsignedInt, v)

\* the code of emitCborMarshalInt64Field: uint64(v), or uint64(-v-1)
MarshalInt64Field(v, s) ==
  IF ~I64Negative(v) THEN WriteMajorTypeHeader(s, MajUnsignedInt, v)
  ELSE WriteMajorTypeHeader(s, MajNegativeInt, U64Sub(U64Neg(v), U64(1)))

\* the code of emitCborMarshalBoolField
MarshalBoolField(v, s) == WriteBool(s, v)

\* the code of emitCborMarshalStructField for a big.Int: v is the *big.Int;
\* b is t.X.Bytes() when t.X is not nil
MarshalBigIntField(v, s) ==
  LET b == IF v # <<>> THEN v[1].mag ELSE <<>>
  IN  Write(WriteMajorTypeHeader(WriteMajorTypeHeader(s, MajTag, U64(2)),
                                 MajByteString, U64(Len(b))),
            b)

\* the code of emitCborMarshalStructField for a cid.Cid
MarshalCidField(f, v, s) ==
  IF f.Pointer
  THEN IF v = <<>> THEN Write(s, CborNull) ELSE WriteCid(s, v[1])
  ELSE WriteCid(s, v)

\* Deferred.MarshalCBOR of the runtime: nil is written as CborNull, and Raw
\* is written as it is
MarshalDeferred(v, s) == IF v = <<>> THEN Write(s, CborNull) ELSE Write(s, v[1])

RECURSIVE MarshalField(_, _, _, _, _)
RECURSIVE MarshalFieldsFrom(_, _, _, _, _, _)
RECURSIVE MarshalElemsFrom(_, _, _, _, _, _)
RECURSIVE MarshalEntriesFrom(_, _, _, _, _, _, _)

\* w.Write(lengthBuf) of emitCborMarshalStructTuple, w.Write(MapHeader) of
\* emitCborMarshalStructMap
MarshalFrame(gti, s, form) ==
  Write(s, IF form = "tuple" THEN TupleHeader(gti) ELSE MapHeader(gti))

\* MarshalCBOR of *T for a record type T named n: the v == nil branch and
\* the frame of emitCborMarshalStructTuple / emitCborMarshalStructMap, then
\* the fields. v is the pointer: <<>> or <<record>>.
MarshalCBOR(n, v, s, form, ord) ==
  IF v = <<>> THEN Write(s, CborNull)
  ELSE MarshalFieldsFrom(ParseTypeInfo(n), v[1], 1,
                         MarshalFrame(ParseTypeInfo(n), s, form), form, ord)

\* the code of emitCborMarshalStructField: f.Type is big.Int, cid.Cid, or a
\* type with a MarshalCBOR of its own. The value is a pointer when the
\* field is one (f.Pointer) or when f.Type is a pointer type (a map's
\* element); the call takes the address of any other value.
MarshalStructField(f, v, s, form, ord) ==
  IF f.Type = bigIntType THEN MarshalBigIntField(v, s)
  ELSE IF f.Type = cidType THEN MarshalCidField(f, v, s)
  ELSE
    LET t == IF f.Type.kind = "ptr" THEN f.Type.elem ELSE f.Type
        p == IF f.Pointer \/ f.Type.kind = "ptr" THEN v ELSE <<v>>
    IN  IF t = deferredType THEN MarshalDeferred(p, s)
        ELSE MarshalCBOR(t.name, p, s, form, ord)

\* the body of the loop `for _, v := range t.X` of emitCborMarshalSliceField
\* for the element v; e is the element type (behind its pointer, if ptr)
MarshalElem(e, ptr, v, s, form, ord) ==
  CASE e.kind = "struct" ->
         IF e = cidType THEN WriteCid(s, v)
         ELSE IF e = deferredType
         THEN MarshalDeferred(IF ptr THEN v ELSE <<v>>, s)
         ELSE MarshalCBOR(e.name, IF ptr THEN v ELSE <<v>>, s, form, ord)
    [] e.kind \in {"uint64", "uint8"} -> WriteMajorTypeHeader(s, MajUnsignedInt, v)
    [] e.kind = "int64" -> MarshalInt64Field(v, s)
    [] e.kind = "slice" -> MarshalField(SubField(e), v, s, form, ord)

\* the loop `for _, v := range t.X` of emitCborMarshalSliceField, from the
\* i-th element
MarshalElemsFrom(f, v, i, s, form, ord) ==
  IF s.err \/ i > Len(v) THEN s
  ELSE MarshalElemsFrom(
         f, v, i + 1,
         MarshalElem(IF f.Type.elem.kind = "ptr" THEN f.Type.elem.elem
                     ELSE f.Type.elem,
                     f.Type.elem.kind = "ptr", v[i], s, form, ord),
         form, ord)

\* the code of emitCborMarshalSliceField, for a slice and for an array
MarshalSliceField(f, v, s, form, ord) ==
  IF f.Type.elem.kind = "uint8"
  THEN IF Len(v) > ByteArrayMaxLen THEN Fail(s)
       ELSE Write(WriteMajorTypeHeader(s, MajByteString, U64(Len(v))), v)
  ELSE IF Len(v) > MaxLength THEN Fail(s)
       ELSE MarshalElemsFrom(f, v, 1,
                             WriteMajorTypeHeader(s, MajArray, U64(Len(v))),
                             form, ord)

\* the loop `for _, k := range keys` of emitCborMarshalMapField, from the
\* i-th key: the key by emitCborMarshalStringField, the value by
\* emitCborMarshalStructField(Field{Name: "v", Type: f.Type.Elem()})
MarshalEntriesFrom(f, m, keys, i, s, form, ord) ==
  IF s.err \/ i > Len(keys) THEN s
  ELSE MarshalEntriesFrom(
         f, m, keys, i + 1,
         MarshalStructField(SubField(f.Type.elem), m[keys[i]],
                            MarshalStringField(keys[i], s), form, ord),
         form, ord)

\* the code of a map encoder that does not sort the keys it has ranged over
MarshalMapFieldUnsorted(f, m, s, form, ord) ==
  IF Cardinality(DOMAIN m) > MaxMapLen THEN Fail(s)
  ELSE MarshalEntriesFrom(
         f, m, RangeKeys(m, ord), 1,
         WriteMajorTypeHeader(s, MajMap, U64(Cardinality(DOMAIN m))),
         form, ord)

\* the code of emitCborMarshalMapField
MarshalMapField(f, m, s, form, ord) ==
  IF Cardinality(DOMAIN m) > MaxMapLen THEN Fail(s)
  ELSE MarshalEntriesFrom(
         f, m, SortStrings(RangeKeys(m, ord)), 1,
         WriteMajorTypeHeader(s, MajMap, U64(Cardinality(DOMAIN m))),
         form, ord)

\* the switch on f.Type.Kind() of emitCborMarshalStructTuple and
\* emitCborMarshalStructMap
MarshalField(f, v, s, form, ord) ==
  CASE f.Type.kind = "string" -> MarshalStringField(v, s)
    [] f.Type.kind = "struct" -> MarshalStructField(f, v, s, form, ord)
    [] f.Type.kind = "uint64" -> MarshalUint64Field(f, v, s)
    [] f.Type.kind = "uint8" -> MarshalUint8Field(v, s)
    [] f.Type.kind = "int64" -> MarshalInt64Field(v, s)
    [] f.Type.kind \in {"array", "slice"} -> MarshalSliceField(f, v, s, form, ord)
    [] f.Type.kind = "bool" -> MarshalBoolField(v, s)
    [] f.Type.kind = "map" -> MarshalMapField(f, v, s, form, ord)

\* what one round of the loop over gti.Fields emits: in named-map form the
\* key, by emitCborMarshalStringField(Field{Name: MapKey}), then the field
MarshalStep(f, v, s, form, ord) ==
  IF form = "tuple" THEN MarshalField(f, v, s, form, ord)
  ELSE MarshalField(f, v, MarshalStringField(Utf8(f.MapKey), s), form, ord)

\* the fields of the record r from the i-th, in the order of gti.Fields
MarshalFieldsFrom(gti, r, i, s, form, ord) ==
  IF s.err \/ i > Len(gti.Fields) THEN s
  ELSE MarshalFieldsFrom(
         gti, r, i + 1,
         MarshalStep(gti.Fields[i], r[gti.Fields[i].Name], s, form, ord),
         form, ord)

\* a sink that takes any number of bytes (a bytes.Buffer)
NoCap == 1000000
Buffer == [out |-> <<>>, err |-> FALSE, cap |-> NoCap]

\* the bytes of the record r of type n, encoded into a buffer
Encode(n, r, form, ord) == MarshalCBOR(n, <<r>>, Buffer, form, ord)

\* ----------------------------------------------- runtime: the reader
\* The source of a decoder is the byte sequence buf and pos, the number of
\* bytes consumed.  It is a reader with ReadByte and UnreadByte (a
\* bytes.Reader or bytes.Buffer), so cbg.GetPeeker(r) is r itself.
\* A decoding step gives [err, pos, v, lost]: whether it returns an error,
\* the position after it, the value the destination holds after it, and
\* whether an error was raised inside it that it did not return.

Good(pos, v) == [err |-> FALSE, pos |-> pos, v |-> v, lost |-> FALSE]
Bad(pos, v) == [err |-> TRUE, pos |-> pos, v |-> v, lost |-> FALSE]

\* io.ReadFull(br, buf) for n bytes
ReadFull(buf, pos, n) ==
  IF pos + n > Len(buf) THEN Bad(Len(buf), <<>>)
  ELSE Good(pos + n, SubSeq(buf, pos + 1, pos + n))

\* cbg.ReadStringBuf: a header of major type TextString and a value of at
\* most MaxLength, then that many bytes
ReadString(buf, pos) ==
  LET Got(h) ==
        IF h.err THEN Bad(h.pos, <<>>)
        ELSE IF h.maj # MajTextString THEN Bad(h.pos, <<>>)
        ELSE IF U64GreaterNat(h.extra, MaxLength) THEN Bad(h.pos, <<>>)
        ELSE ReadFull(buf, h.pos, ToNat(h.extra))
  IN  Got(CborReadHeader(buf, pos))

\* cbg.ReadCid: tag 42, then a byte string of a zero byte and the CID
ReadCid(buf, pos) ==
  LET Bytes(b) ==
        IF b.err THEN b
        ELSE IF b.v[1] # 0 \/ Len(b.v) < 2 THEN Bad(b.pos, <<>>)
        ELSE Good(b.pos, Tail(b.v))
      Got2(h2) ==
        IF h2.err \/ h2.maj # MajByteString THEN Bad(h2.pos, <<>>)
        ELSE IF h2.extra = U64(0) \/ ~IsSmall(h2.extra) THEN Bad(h2.pos, <<>>)
        ELSE Bytes(ReadFull(buf, h2.pos, ToNat(h2.extra)))
      Got1(h1) ==
        IF h1.err \/ h1.maj # MajTag \/ h1.extra # U64(42) THEN Bad(h1.pos, <<>>)
        ELSE Got2(CborReadHeader(buf, h1.pos))
  IN  Got1(CborReadHeader(buf, pos))

\* the number of values an array header announces; more than buf has bytes
\* is as good as one more than it has, since every value takes a byte
Items(w, buf) ==
  IF IsSmall(w) /\ ToNat(w) <= Len(buf) THEN ToNat(w) ELSE Len(buf) + 1

RECURSIVE SkipItems(_, _, _)
\* the next n values of buf are passed over: a header each, the bytes of a
\* string, the elements of an array, the keys and values of a map, the
\* value under a tag
SkipItems(buf, pos, n) ==
  LET Got(h) ==
        IF h.err THEN Bad(h.pos, <<>>)
        ELSE IF h.maj \in {MajUnsignedInt, MajNegativeInt, MajOther}
        THEN SkipItems(buf, h.pos, n - 1)
        ELSE IF h.maj = MajTag THEN SkipItems(buf, h.pos, n)
        ELSE IF h.maj \in {MajByteString, MajTextString}
        THEN IF h.pos + Items(h.extra, buf) > Len(buf) THEN Bad(Len(buf), <<>>)
             ELSE SkipItems(buf, h.pos + ToNat(h.extra), n - 1)
        ELSE IF h.maj = MajArray
        THEN SkipItems(buf, h.pos, n - 1 + Items(h.extra, buf))
        ELSE SkipItems(buf, h.pos, n - 1 + 2 * Items(h.extra, buf))
  IN  IF n = 0 THEN Good(pos, <<>>) ELSE Got(CborReadHeader(buf, pos))

\* cbg.ScanForLinks(r, func(cid.Cid){}): exactly one value is passed over
ScanForLinks(buf, pos) == SkipItems(buf, pos, 1)

\* Deferred.UnmarshalCBOR of the runtime: Raw is the bytes of one value
UnmarshalDeferred(buf, pos) ==
  LET Got(k) ==
        IF k.err THEN Bad(k.pos, <<>>)
        ELSE Good(k.pos, SubSeq(buf, pos + 1, k.pos))
  IN  Got(SkipItems(buf, pos, 1))

\* ------------------------------------------------ the emitted decoders
\* Each operator is the code its emit function writes into UnmarshalCBOR,
\* run on the source (buf, pos) for the field f; cur is what the field of
\* the destination holds before.

\* u with v in the place of its value
WithValue(u, v) == [u EXCEPT !.v = v]

\* the code of emitCborUnmarshalStringField
UnmarshalStringField(cur, buf, pos) ==
  LET Got(sval) == IF sval.err THEN Bad(sval.pos, cur) ELSE sval
  IN  Got(ReadString(buf, pos))

\* big.NewInt(0).SetBytes(b): the magnitude without its leading zero bytes
RECURSIVE StripZeros(_)
StripZeros(b) ==
  IF Len(b) > 0 /\ Head(b) = 0 THEN StripZeros(Tail(b)) ELSE b

SetBytes(b) == [neg |-> FALSE, mag |-> StripZeros(b)]

\* the code of emitCborUnmarshalStructField for a big.Int
UnmarshalBigIntField(cur, buf, pos) ==
  LET Bytes(b) ==
        IF b.err THEN Bad(b.pos, cur) ELSE Good(b.pos, <<SetBytes(b.v)>>)
      Got2(h2) ==
        IF h2.err THEN Bad(h2.pos, cur)
        ELSE IF h2.maj # MajByteString THEN Bad(h2.pos, cur)
        ELSE IF U64GreaterNat(h2.extra, MaxBigIntLen) THEN Bad(h2.pos, cur)
        ELSE IF U64GreaterNat(h2.extra, 0)
        THEN Bytes(ReadFull(buf, h2.pos, ToNat(h2.extra)))
        ELSE Good(h2.pos, <<SetBytes(<<>>)>>)
      Got1(h1) ==
        IF h1.err THEN Bad(h1.pos, cur)
        ELSE IF h1.maj # MajTag \/ h1.extra # U64(2) THEN Bad(h1.pos, cur)
        ELSE Got2(CborReadHeader(buf, h1.pos))
  IN  Got1(CborReadHeader(buf, pos))

\* the value read, stored behind a pointer if ptr; cur is kept on an error
Stored(u, ptr, cur) ==
  IF u.err THEN WithValue(u, cur)
  ELSE IF ptr THEN WithValue(u, <<u.v>>) ELSE u

\* the code of emitCborUnmarshalStructField for a cid.Cid
UnmarshalCidField(f, cur, buf, pos) ==
  IF f.Pointer
  THEN IF pos + 1 > Len(buf) THEN Bad(pos, cur)
       ELSE IF buf[pos + 1] # CborNull[1]
       THEN Stored(ReadCid(buf, (pos + 1) - 1), TRUE, cur)
       ELSE Good(pos + 1, cur)
  ELSE Stored(ReadCid(buf, pos), FALSE, cur)

\* the code of emitCborUnmarshalStructField for a Deferred: no byte is
\* peeked; a pointer is set to new(cbg.Deferred) before the value is read
UnmarshalDeferredField(f, cur, buf, pos) ==
  Stored(UnmarshalDeferred(buf, pos), f.Pointer, IF f.Pointer THEN <<<<>>>> ELSE cur)

\* the code of an int64 decoder with no overflow check under NegativeInt
UnmarshalInt64FieldUnchecked(cur, buf, pos) ==
  LET Got(h) ==
        IF h.err THEN Bad(h.pos, cur)
        ELSE IF h.maj = MajUnsignedInt
        THEN IF I64Negative(h.extra) THEN Bad(h.pos, cur)
             ELSE Good(h.pos, h.extra)
        ELSE IF h.maj = MajNegativeInt
        THEN Good(h.pos, U64Sub(I64MinusOne, h.extra))
        ELSE Bad(h.pos, cur)
  IN  Got(CborReadHeader(buf, pos))

\* the code of emitCborUnmarshalInt64Field
UnmarshalInt64Field(cur, buf, pos) ==
  LET Got(h) ==
        IF h.err THEN Bad(h.pos, cur)
        ELSE IF h.maj = MajUnsignedInt
        THEN IF I64Negative(h.extra) THEN Bad(h.pos, cur)
             ELSE Good(h.pos, h.extra)
        ELSE IF h.maj = MajNegativeInt
        THEN IF I64Negative(h.extra) THEN Bad(h.pos, cur)
             ELSE Good(h.pos, U64Sub(I64MinusOne, h.extra))
        ELSE Bad(h.pos, cur)
  IN  Got(CborReadHeader(buf, pos))

\* maj, extra, err = ReadHeader; maj must be MajUnsignedInt
ReadUint(cur, buf, pos) ==
  LET Got(h) ==
        IF h.err THEN Bad(h.pos, cur)
        ELSE IF h.maj # MajUnsignedInt THEN Bad(h.pos, cur)
        ELSE Good(h.pos, h.extra)
  IN  Got(CborReadHeader(buf, pos))

\* the code of emitCborUnmarshalUint64Field
UnmarshalUint64Field(f, cur, buf, pos) ==
  IF f.Pointer
  THEN IF pos + 1 > Len(buf) THEN Bad(pos, cur)
       ELSE IF buf[pos + 1] # CborNull[1]
       THEN Stored(ReadUint(cur, buf, (pos + 1) - 1), TRUE, cur)
       ELSE Good(pos + 1, cur)
  ELSE ReadUint(cur, buf, pos)

\* math.MaxUint8
MaxUint8 == 255

\* the code of emitCborUnmarshalUint8Field
UnmarshalUint8Field(cur, buf, pos) ==
  LET Got(u) ==
        IF u.err THEN u
        ELSE IF U64GreaterNat(u.v, MaxUint8) THEN Bad(u.pos, cur)
        ELSE u
  IN  Got(ReadUint(cur, buf, pos))

\* the code of emitCborUnmarshalBoolField
UnmarshalBoolField(cur, buf, pos) ==
  LET Got(h) ==
        IF h.err THEN Bad(h.pos, cur)
        ELSE IF h.maj # MajOther THEN Bad(h.pos, cur)
        ELSE IF h.extra = U64(20) THEN Good(h.pos, FALSE)
        ELSE IF h.extra = U64(21) THEN Good(h.pos, TRUE)
        ELSE Bad(h.pos, cur)
  IN  Got(CborReadHeader(buf, pos))

RECURSIVE UnmarshalField(_, _, _, _, _)
RECURSIVE UnmarshalCBOR(_, _, _, _)
RECURSIVE UnmarshalElemsFrom(_, _, _, _, _, _, _)
RECURSIVE UnmarshalEntriesFrom(_, _, _, _, _, _, _)
RECURSIVE UnmarshalTupleFrom(_, _, _, _, _, _)
RECURSIVE UnmarshalPairsFrom(_, _, _, _, _, _, _)

\* r with the unreturned errors l added
WithLost(r, l) == [r EXCEPT !.lost = @ \/ l]

\* the value read, behind a pointer if ptr
Pointed(u, ptr) == IF ptr THEN WithValue(u, <<u.v>>) ELSE u

\* the code of emitCborUnmarshalStructField for a type with an
\* UnmarshalCBOR of its own; f.Type is the type behind the pointer
UnmarshalRecordField(f, cur, buf, pos, form) ==
  IF f.Pointer /\ pos + 1 > Len(buf) THEN Bad(pos, cur)
  ELSE IF f.Pointer /\ buf[pos + 1] = CborNull[1] THEN Good(pos + 1, cur)
  ELSE Pointed(UnmarshalCBOR(f.Type.name, buf,
                             IF f.Pointer THEN (pos + 1) - 1 ELSE pos, form),
               f.Pointer)

\* the code of emitCborUnmarshalStructField
UnmarshalStructField(f, cur, buf, pos, form) ==
  IF f.Type = bigIntType THEN UnmarshalBigIntField(cur, buf, pos)
  ELSE IF f.Type = cidType THEN UnmarshalCidField(f, cur, buf, pos)
  ELSE IF f.Type = deferredType THEN UnmarshalDeferredField(f, cur, buf, pos)
  ELSE UnmarshalRecordField(f, cur, buf, pos, form)

\* one round of the loop over the elements of emitCborUnmarshalSliceField:
\* the element of type e (behind its pointer, if ptr) is read, no byte
\* peeked, and stored
UnmarshalElem(e, ptr, buf, pos, form) ==
  CASE e.kind = "struct" ->
         IF e = cidType THEN ReadCid(buf, pos)
         ELSE IF e = deferredType THEN Pointed(UnmarshalDeferred(buf, pos), ptr)
         ELSE Pointed(UnmarshalCBOR(e.name, buf, pos, form), ptr)
    [] e.kind = "uint64" -> ReadUint(U64(0), buf, pos)
    [] e.kind = "int64" -> UnmarshalInt64Field(U64(0), buf, pos)
    [] e.kind \in {"array", "slice"} ->
         UnmarshalField(SubField(e), ZeroOf(e), buf, pos, form)

\* the loop `for i := 0; i < int(extra); i++` of emitCborUnmarshalSliceField
\* from its i-th round; acc is the elements read so far.  What a round that
\* fails leaves in the destination is not kept: cur stands for it.
UnmarshalElemsFrom(f, cur, acc, n, buf, pos, form) ==
  LET Got(u) ==
        IF u.err THEN WithValue(u, cur)
        ELSE WithLost(UnmarshalElemsFrom(f, cur, Append(acc, u.v), n, buf,
                                         u.pos, form), u.lost)
  IN  IF Len(acc) >= n THEN Good(pos, acc)
      ELSE Got(UnmarshalElem(IF f.Type.elem.kind = "ptr" THEN f.Type.elem.elem
                             ELSE f.Type.elem,
                             f.Type.elem.kind = "ptr", buf, pos, form))

\* the code of emitCborUnmarshalSliceField, for a slice and for an array
UnmarshalSliceField(f, cur, buf, pos, form) ==
  LET e == IF f.Type.elem.kind = "ptr" THEN f.Type.elem.elem ELSE f.Type.elem
      isArray == f.Type.kind = "array"
      Bytes(b) == IF b.err THEN Bad(b.pos, cur) ELSE b
      Got(h) ==
        IF h.err THEN Bad(h.pos, cur)
        ELSE IF e.kind = "uint8"
        THEN IF U64GreaterNat(h.extra, ByteArrayMaxLen) THEN Bad(h.pos, cur)
             ELSE IF h.maj # MajByteString THEN Bad(h.pos, cur)
             ELSE IF isArray /\ h.extra # U64(f.Type.len) THEN Bad(h.pos, cur)
             ELSE Bytes(ReadFull(buf, h.pos,
                                 IF isArray \/ U64GreaterNat(h.extra, 0)
                                 THEN ToNat(h.extra) ELSE Len(cur)))
        ELSE IF U64GreaterNat(h.extra, MaxLength) THEN Bad(h.pos, cur)
             ELSE IF h.maj # MajArray THEN Bad(h.pos, cur)
             ELSE IF isArray /\ h.extra # U64(f.Type.len) THEN Bad(h.pos, cur)
             ELSE IF ~isArray /\ h.extra = U64(0) THEN Good(h.pos, cur)
             ELSE UnmarshalElemsFrom(f, cur, <<>>, ToNat(h.extra), buf, h.pos, form)
  IN  Got(CborReadHeader(buf, pos))

\* the map m with v stored under the key k
Store(m, k, v) == [x \in DOMAIN m \cup {k} |-> IF x = k THEN v ELSE m[x]]

\* Field{Name: "v", Pointer: ..., Type: ...} for the element of the map f
EntryField(f) ==
  [Name |-> "v", MapKey |-> "", Pointer |-> f.Type.elem.kind = "ptr",
   Type |-> IF f.Type.elem.kind = "ptr" THEN f.Type.elem.elem ELSE f.Type.elem]

\* the loop `for i, l := 0, int(extra); i < l; i++` of
\* emitCborUnmarshalMapField from its i-th round: the key by
\* emitCborUnmarshalStringField, the value (var v T) by
\* emitCborUnmarshalStructField, then t.X[k] = v
UnmarshalEntriesFrom(f, m, i, n, buf, pos, form) ==
  LET Value(k, u) ==
        IF u.err THEN WithValue(u, m)
        ELSE WithLost(UnmarshalEntriesFrom(f, Store(m, k.v, u.v), i + 1, n,
                                           buf, u.pos, form), u.lost)
      Key(k) ==
        IF k.err THEN Bad(k.pos, m)
        ELSE Value(k, UnmarshalStructField(EntryField(f), ZeroOf(f.Type.elem),
                                           buf, k.pos, form))
  IN  IF i > n THEN Good(pos, m)
      ELSE Key(UnmarshalStringField(<<>>, buf, pos))

\* a decoder of a map field that takes whatever length is announced
UnmarshalMapFieldUnbounded(f, cur, buf, pos, form) ==
  LET Got(h) ==
        IF h.err THEN Bad(h.pos, cur)
        ELSE IF h.maj # MajMap THEN Bad(h.pos, cur)
        ELSE UnmarshalEntriesFrom(f, <<>>, 1, Items(h.extra, buf), buf, h.pos, form)
  IN  Got(CborReadHeader(buf, pos))

\* the code of emitCborUnmarshalMapField
UnmarshalMapField(f, cur, buf, pos, form) ==
  LET Got(h) ==
        IF h.err THEN Bad(h.pos, cur)
        ELSE IF h.maj # MajMap THEN Bad(h.pos, cur)
        ELSE IF U64GreaterNat(h.extra, MaxMapLen) THEN Bad(h.pos, cur)
        ELSE UnmarshalEntriesFrom(f, <<>>, 1, ToNat(h.extra), buf, h.pos, form)
  IN  Got(CborReadHeader(buf, pos))

\* the switch on f.Type.Kind() of emitCborUnmarshalStructTuple and
\* emitCborUnmarshalStructMap
UnmarshalField(f, cur, buf, pos, form) ==
  CASE f.Type.kind = "string" -> UnmarshalStringField(cur, buf, pos)
    [] f.Type.kind = "struct" -> UnmarshalStructField(f, cur, buf, pos, form)
    [] f.Type.kind = "uint64" -> UnmarshalUint64Field(f, cur, buf, pos)
    [] f.Type.kind = "uint8" -> UnmarshalUint8Field(cur, buf, pos)
    [] f.Type.kind = "int64" -> UnmarshalInt64Field(cur, buf, pos)
    [] f.Type.kind \in {"array", "slice"} -> UnmarshalSliceField(f, cur, buf, pos, form)
    [] f.Type.kind = "bool" -> UnmarshalBoolField(cur, buf, pos)
    [] f.Type.kind = "map" -> UnmarshalMapField(f, cur, buf, pos, form)

\* *t = T{}
ZeroRecord(n) == ZeroOf(Named(n))

\* the head of a tuple decoder that refuses only a length that is too small
UnmarshalFrameAtLeast(gti, buf, pos, form) ==
  LET Got(h) ==
        IF h.err THEN Bad(h.pos, 0)
        ELSE IF form = "tuple"
        THEN IF h.maj # MajArray THEN Bad(h.pos, 0)
             ELSE IF U64Less(h.extra, U64(Len(gti.Fields))) THEN Bad(h.pos, 0)
             ELSE Good(h.pos, Len(gti.Fields))
        ELSE IF h.maj # MajMap THEN Bad(h.pos, 0)
             ELSE IF U64GreaterNat(h.extra, MaxLength) THEN Bad(h.pos, 0)
             ELSE Good(h.pos, ToNat(h.extra))
  IN  Got(CborReadHeader(buf, pos))

\* the head of UnmarshalCBOR: the header of the frame is read and checked.
\* v is the number of rounds that follow: the fields in tuple form, the
\* pairs the header announces in named-map form.
UnmarshalFrame(gti, buf, pos, form) ==
  LET Got(h) ==
        IF h.err THEN Bad(h.pos, 0)
        ELSE IF form = "tuple"
        THEN IF h.maj # MajArray THEN Bad(h.pos, 0)
             ELSE IF h.extra # U64(Len(gti.Fields)) THEN Bad(h.pos, 0)
             ELSE Good(h.pos, Len(gti.Fields))
        ELSE IF h.maj # MajMap THEN Bad(h.pos, 0)
             ELSE IF U64GreaterNat(h.extra, MaxLength) THEN Bad(h.pos, 0)
             ELSE Good(h.pos, ToNat(h.extra))
  IN  Got(CborReadHeader(buf, pos))

\* the field f of the record r read by the code emitted for it: what the
\* code leaves in the field is put in the record
UnmarshalInto(f, r, buf, pos, form) ==
  LET Got(u) == WithValue(u, [r EXCEPT ![f.Name] = u.v])
  IN  Got(UnmarshalField(f, r[f.Name], buf, pos, form))

\* a field step that takes the fields from the last to the first
UnmarshalTupleStepReversed(gti, r, i, buf, pos, form) ==
  UnmarshalInto(gti.Fields[Len(gti.Fields) + 1 - i], r, buf, pos, form)

\* the i-th field step of emitCborUnmarshalStructTuple on the record r
UnmarshalTupleStep(gti, r, i, buf, pos, form) ==
  UnmarshalInto(gti.Fields[i], r, buf, pos, form)

\* the field steps of emitCborUnmarshalStructTuple from the i-th
UnmarshalTupleFrom(gti, r, i, buf, pos, form) ==
  LET Got(u) ==
        IF u.err THEN u
        ELSE WithLost(UnmarshalTupleFrom(gti, u.v, i + 1, buf, u.pos, form),
                      u.lost)
  IN  IF i > Len(gti.Fields) THEN Good(pos, r)
      ELSE Got(UnmarshalTupleStep(gti, r, i, buf, pos, form))

\* a default case that calls nothing: the value of the key stays in the source
SkipNothing(r, buf, pos) == Good(pos, r)

\* cbg.ScanForLinks(r, func(cid.Cid){}) of the default case: what it returns
\* is dropped
SkipUnknown(r, buf, pos) ==
  LET Got(k) == [err |-> FALSE, pos |-> k.pos, v |-> r, lost |-> k.err]
  IN  Got(ScanForLinks(buf, pos))

\* the fields of gti whose case of `switch name` the name read selects
Cases(gti, name) ==
  {i \in 1..Len(gti.Fields) : Utf8(gti.Fields[i].MapKey) = name}

\* one round of the loop of emitCborUnmarshalStructMap on the record r: the
\* name by emitCborUnmarshalStringField, then `switch name`
UnmarshalMapStep(gti, r, buf, pos, form) ==
  LET Got(name) ==
        IF name.err THEN Bad(name.pos, r)
        ELSE IF Cases(gti, name.v) # {}
        THEN UnmarshalInto(gti.Fields[CHOOSE i \in Cases(gti, name.v) : TRUE],
                           r, buf, name.pos, form)
        ELSE SkipUnknown(r, buf, name.pos)
  IN  Got(UnmarshalStringField(<<>>, buf, pos))

\* the rounds of the loop of emitCborUnmarshalStructMap from the i-th of n
UnmarshalPairsFrom(gti, r, i, n, buf, pos, form) ==
  LET Got(u) ==
        IF u.err THEN u
        ELSE WithLost(UnmarshalPairsFrom(gti, u.v, i + 1, n, buf, u.pos, form),
                      u.lost)
  IN  IF i > n THEN Good(pos, r)
      ELSE Got(UnmarshalMapStep(gti, r, buf, pos, form))

\* UnmarshalCBOR of the record type named n, whole
UnmarshalCBOR(n, buf, pos, form) ==
  LET Got(h) ==
        IF h.err THEN Bad(h.pos, ZeroRecord(n))
        ELSE IF form = "tuple"
        THEN UnmarshalTupleFrom(ParseTypeInfo(n), ZeroRecord(n), 1, buf, h.pos, form)
        ELSE UnmarshalPairsFrom(ParseTypeInfo(n), ZeroRecord(n), 1, h.v, buf,
                                h.pos, form)
  IN  Got(UnmarshalFrame(ParseTypeInfo(n), buf, pos, form))

\* ------------------------------------------------------ the state machine
\* One run: a record type is handed to ParseTypeInfo, then to one of the two
\* generators; the emitted MarshalCBOR is called on a value and writes to a
\* sink, field by field; the bytes reach a decoder, as written or changed on
\* the way; the emitted UnmarshalCBOR of the same type, or of an older or
\* newer version of it, reads them into a destination, round by round.

VARIABLES
  pc,     \* where the run is
  typ,    \* the record type handed to the generator
  gti,    \* what ParseTypeInfo made of it
  form,   \* "tuple" or "map": the generator called; "none" before
  val,    \* the *T that MarshalCBOR is called on: <<>> (nil) or <<record>>
  ord,    \* the order in which Go ranges over the keys of a map in this run
  sink,   \* the sink of the encoder
  ei,     \* the field the encoder is at
  dtyp,   \* the record type of the destination
  buf,    \* the bytes the decoder reads
  pos,    \* how many of them it has consumed
  dst,    \* the destination record
  di,     \* the round the decoder is at
  dn,     \* the number of rounds of the decoder
  lost    \* an error was raised in the decoder and not returned

vars == <<pc, typ, gti, form, val, ord, sink, ei, dtyp, buf, pos, dst, di, dn, lost>>

\* the orders in which a run may range over the keys of a map
Orders ==
  {<<<<97>>, <<97, 97>>, <<98>>>>, <<<<98>>, <<97, 97>>, <<97>>>>,
   <<<<97, 97>>, <<98>>, <<97>>>>}

\* the orders that make a difference to the code emitted for gti: one, when
\* no field of gti is a map
OrdersOf(g) ==
  IF \E i \in 1..Len(g.Fields) : g.Fields[i].Type.kind = "map"
  THEN Orders
  ELSE {<<<<97>>, <<97, 97>>, <<98>>>>}

\* the sinks of a run: one that takes every byte, and ones that fail after
\* so many bytes
Caps == {NoCap, 2}

\* the record types that are versions of one record: a decoder of one may
\* be given the bytes of the other
Peers(n) ==
  IF n \in {"SimpleStructV1", "SimpleStructV2"}
  THEN {"SimpleStructV1", "SimpleStructV2"}
  ELSE {n}

RECURSIVE NonZeroOf(_, _)
\* a value of type t none of whose parts is the zero value
NonZeroOf(t, d) ==
  CASE t.kind = "ptr" -> <<NonZeroOf(t.elem, d)>>
    [] t.kind = "string" -> <<100, 111, 103>>
    [] t.kind \in {"uint64", "uint8", "int64"} -> U64(9)
    [] t.kind = "bool" -> TRUE
    [] t.kind = "slice" ->
         IF t.elem.kind = "uint8" THEN <<9>> ELSE <<NonZeroOf(t.elem, d)>>
    [] t.kind = "array" ->
         [i \in 1..t.len |-> IF t.elem.kind = "uint8" THEN 9 ELSE NonZeroOf(t.elem, d)]
    [] t.kind = "map" -> [k \in {<<122>>} |-> NonZeroOf(t.elem, d)]
    [] t.kind = "struct" ->
         IF t = bigIntType THEN [neg |-> FALSE, mag |-> <<9>>]
         ELSE IF t = cidType THEN <<9>>
         ELSE IF t = deferredType THEN <<9>>
         ELSE IF d = 0 THEN BaseOf(t)
         ELSE [fn \in FieldNames(t.name) |->
                 NonZeroOf(FieldType(t.name, fn), d - 1)]

\* what the destination of a decoder holds before: a record that an earlier
\* use left in it
Prior(n) == NonZeroOf(Named(n), 1)

\* the bytes b with the first k kept
Truncated(b, k) == SubSeq(b, 1, k)

\* the bytes put in the place of the k-th byte, c: the next value (a length
\* one more, the next width of a header) and c under another major type;
\* and for the first byte, the header of the frame, also the value before
\* (a length one less) and the next major type (a map for an array)
Tampers(k, c) ==
  {(c + 1) % 256, (c + 128) % 256}
    \cup (IF k = 1 THEN {(c + 255) % 256, (c + 32) % 256} ELSE {})

\* the bytes b with the k-th replaced by c
Replaced(b, k, c) == [b EXCEPT ![k] = c]

\* the fields of gti in another order: the last first
Rotated(fields) ==
  IF Len(fields) = 0 THEN fields
  ELSE <<fields[Len(fields)]>> \o SubSeq(fields, 1, Len(fields) - 1)

\* the named-map bytes of the record r as another encoder may write them:
\* the same pairs, the last pair first
EncodeRotated(n, r, o) ==
  LET Fields(g) == MarshalFieldsFrom(g, r, 1, MarshalFrame(g, Buffer, "map"),
                                     "map", o).out
  IN  Fields([Name |-> n, Fields |-> Rotated(ParseTypeInfo(n).Fields)])

\* what may reach the decoder when the encoder has written b
Arrivals(b) ==
  {b} \cup {Truncated(b, k) : k \in 0..(Len(b) - 1)}
      \cup UNION {{Replaced(b, k, c) : c \in Tampers(k, b[k])} : k \in 1..Len(b)}
      \cup (IF form = "map" /\ val # <<>>
            THEN {EncodeRotated(typ, val[1], ord)} ELSE {})

NoSink == [out |-> <<>>, err |-> FALSE, cap |-> 0]

\* a sink that takes c bytes and has taken none
NewSink(c) == [out |-> <<>>, err |-> FALSE, cap |-> c]

TypeOK ==
  /\ pc \in {"start", "parsed", "refused", "generated", "encoding",
             "encfailed", "encoded", "wire", "decoding", "decfailed", "decoded"}
  /\ typ \in TypeNames
  /\ form \in {"none", "tuple", "map"}
  /\ dtyp \in TypeNames

Init ==
  /\ pc = "start"
  /\ typ \in TypeNames
  /\ gti = [Name |-> "", Fields |-> <<>>]
  /\ form = "none"
  /\ val = <<>>
  /\ ord = <<>>
  /\ sink = NoSink
  /\ ei = 0
  /\ dtyp = typ
  /\ buf = <<>>
  /\ pos = 0
  /\ dst = <<>>
  /\ di = 0
  /\ dn = 0
  /\ lost = FALSE

\* ParseTypeInfo(i)
DoParseTypeInfo ==
  /\ pc = "start"
  /\ gti' = ParseTypeInfo(typ)
  /\ pc' = "parsed"
  /\ UNCHANGED <<typ, form, val, ord, sink, ei, dtyp, buf, pos, dst, di, dn, lost>>

\* GenTupleEncodersForType(gti, w)
GenTupleEncodersForType ==
  /\ pc = "parsed"
  /\ form' = "tuple"
  /\ pc' = IF GenTupleEncodersForTypeFails(gti) THEN "refused" ELSE "generated"
  /\ UNCHANGED <<typ, gti, val, ord, sink, ei, dtyp, buf, pos, dst, di, dn, lost>>

\* GenMapEncodersForType(gti, w)
GenMapEncodersForType ==
  /\ pc = "parsed"
  /\ form' = "map"
  /\ pc' = IF GenMapEncodersForTypeFails(gti) THEN "refused" ELSE "generated"
  /\ UNCHANGED <<typ, gti, val, ord, sink, ei, dtyp, buf, pos, dst, di, dn, lost>>

\* t.MarshalCBOR(w) is called with t one of the pointers vs: the nil branch,
\* or the frame is written
MarshalCall(vs) ==
  /\ pc = "generated"
  /\ \E v \in vs, o \in OrdersOf(gti), c \in Caps :
       /\ val' = v
       /\ ord' = o
       /\ sink' = IF v = <<>> THEN Write(NewSink(c), CborNull)
                  ELSE MarshalFrame(gti, NewSink(c), form)
       /\ ei' = 1
       /\ pc' = IF sink'.err THEN "encfailed"
                ELSE IF v = <<>> THEN "encoded" ELSE "encoding"
  /\ UNCHANGED <<typ, gti, form, dtyp, buf, pos, dst, di, dn, lost>>

\* t.MarshalCBOR(w) is called on nil or on a record of the model
MarshalBegin ==
  /\ typ \in GoodTypes
  /\ MarshalCall({<<>>} \cup {<<r>> : r \in Values(typ)})

\* the code emitted for the next field runs
MarshalNext ==
  /\ pc = "encoding"
  /\ ei <= Len(gti.Fields)
  /\ sink' = MarshalStep(gti.Fields[ei], val[1][gti.Fields[ei].Name], sink,
                         form, ord)
  /\ pc' = IF sink'.err THEN "encfailed" ELSE "encoding"
  /\ ei' = IF sink'.err THEN ei ELSE ei + 1
  /\ UNCHANGED <<typ, gti, form, val, ord, dtyp, buf, pos, dst, di, dn, lost>>

\* return nil, at the end of MarshalCBOR
MarshalReturn ==
  /\ pc = "encoding"
  /\ ei > Len(gti.Fields)
  /\ pc' = "encoded"
  /\ UNCHANGED <<typ, gti, form, val, ord, sink, ei, dtyp, buf, pos, dst, di, dn, lost>>

\* the bytes written reach a decoder, whose destination holds a record
Transport ==
  /\ pc = "encoded"
  /\ \E b \in Arrivals(sink.out), n \in Peers(typ) :
       /\ buf' = b
       /\ dtyp' = n
       /\ dst' = Prior(n)
  /\ pos' = 0
  /\ pc' = "wire"
  /\ UNCHANGED <<typ, gti, form, val, ord, sink, ei, di, dn, lost>>

\* t.UnmarshalCBOR(r) is called: *t = T{}, then the header of the frame
UnmarshalBegin ==
  /\ pc = "wire"
  /\ LET Got(h) ==
           /\ dst' = ZeroRecord(dtyp)
           /\ pos' = h.pos
           /\ dn' = h.v
           /\ di' = 1
           /\ pc' = IF h.err THEN "decfailed" ELSE "decoding"
     IN  Got(UnmarshalFrame(ParseTypeInfo(dtyp), buf, pos, form))
  /\ UNCHANGED <<typ, gti, form, val, ord, sink, ei, dtyp, buf, lost>>

\* the next round of UnmarshalCBOR: the next field in tuple form, the next
\* pair in named-map form
UnmarshalNext ==
  /\ pc = "decoding"
  /\ di <= dn
  /\ LET Got(u) ==
           /\ dst' = u.v
           /\ pos' = u.pos
           /\ lost' = (lost \/ u.lost)
           /\ di' = IF u.err THEN di ELSE di + 1
           /\ pc' = IF u.err THEN "decfailed" ELSE "decoding"
     IN  Got(IF form = "tuple"
             THEN UnmarshalTupleStep(ParseTypeInfo(dtyp), dst, di, buf, pos, form)
             ELSE UnmarshalMapStep(ParseTypeInfo(dtyp), dst, buf, pos, form))
  /\ UNCHANGED <<typ, gti, form, val, ord, sink, ei, dtyp, buf, dn>>

\* return nil, at the end of UnmarshalCBOR
UnmarshalReturn ==
  /\ pc = "decoding"
  /\ di > dn
  /\ pc' = "decoded"
  /\ UNCHANGED <<typ, gti, form, val, ord, sink, ei, dtyp, buf, pos, dst, di, dn, lost>>

Next ==
  \/ DoParseTypeInfo
  \/ GenTupleEncodersForType
  \/ GenMapEncodersForType
  \/ MarshalBegin
  \/ MarshalNext
  \/ MarshalReturn
  \/ Transport
  \/ UnmarshalBegin
  \/ UnmarshalNext
  \/ UnmarshalReturn

Spec == Init /\ [][Next]_vars

\* the two versions of one record
Versions == {"SimpleStructV1", "SimpleStructV2"}

\* the runs on the two versions of one record
InitVersions == Init /\ typ \in Versions
SpecVersions == InitVersions /\ [][Next]_vars

\* the record types whose last field is the int64 Signed
SignedLast == {"Scalars", "SimpleTypeOne"}

\* the runs on the records of integers
InitIntegers == Init /\ typ \in SignedLast \cup {"RenamedFields"}
SpecIntegers == InitIntegers /\ [][Next]_vars

\* the runs on the records of maps
InitMaps == Init /\ typ = "Maps"
SpecMaps == InitMaps /\ [][Next]_vars


\* --------------------------------------------- records past the ceilings

\* the i-th key of a long map: two bytes, different for different i
LongKey(i) == <<97 + (i \div 256), i % 256>>

\* a value of the type t of length n: a string of n bytes, a slice of n
\* elements, a map of n entries, a big.Int of n bytes of magnitude
LongOf(t, n) ==
  CASE t.kind = "string" -> [i \in 1..n |-> 97]
    [] t.kind = "slice" ->
         [i \in 1..n |-> IF t.elem.kind = "uint8" THEN 0 ELSE BaseOf(t.elem)]
    [] t.kind = "map" -> [k \in {LongKey(i) : i \in 1..n} |-> BaseOf(t.elem)]
    [] t = PtrTo(bigIntType) -> <<[neg |-> FALSE, mag |-> [i \in 1..n |-> 1]]>>

\* the lengths past which the emitted code is to refuse a value of the type
\* t: the numbers the templates compare len(t.X) and extra with
LimitOf(t) ==
  CASE t.kind = "string" -> MaxLength
    [] t.kind = "slice" ->
         IF t.elem.kind = "uint8" THEN ByteArrayMaxLen ELSE MaxLength
    [] t.kind = "map" -> MaxMapLen
    [] t = PtrTo(bigIntType) -> MaxBigIntLen

\* the type t has a length
HasLength(t) == t.kind \in {"string", "slice", "map"} \/ t = PtrTo(bigIntType)

\* the lengths of the long values of type t: one more than the limit and,
\* where the bytes written stay few, the limit
LongLengths(t) ==
  IF t.kind = "string" \/ t = PtrTo(bigIntType)
  THEN {LimitOf(t), LimitOf(t) + 1}
  ELSE {LimitOf(t) + 1}

\* the records of type n with one field long and the others plain
LongValues(n) ==
  UNION {{[BaseOf(Named(n)) EXCEPT ![fn] = LongOf(FieldType(n, fn), l)] :
            l \in LongLengths(FieldType(n, fn))} :
         fn \in {x \in FieldNames(n) : HasLength(FieldType(n, x))}}

\* t.MarshalCBOR(w) is called on a record with a long field
MarshalLong ==
  /\ LongValues(typ) # {}
  /\ MarshalCall({<<r>> : r \in LongValues(typ)})

\* the runs of the encoders on records with a long field
NextBounds ==
  \/ DoParseTypeInfo
  \/ GenTupleEncodersForType
  \/ GenMapEncodersForType
  \/ MarshalLong
  \/ MarshalNext
  \/ MarshalReturn

InitBounds == Init /\ typ \in GoodTypes
SpecBounds == InitBounds /\ [][NextBounds]_vars

\* ------------------------------------- inputs announcing lengths too long

\* what an encoder into a buffer has written when it comes to the j-th
\* field of the record r: the frame, the fields before and, in named-map
\* form, the key of the field
EncodedBefore(g, r, j, fm, o) ==
  LET Keyed(s) ==
        IF fm = "tuple" THEN s
        ELSE MarshalStringField(Utf8(g.Fields[j].MapKey), s)
  IN  Keyed(MarshalFieldsFrom([g EXCEPT !.Fields = SubSeq(@, 1, j - 1)],
                              r, 1, MarshalFrame(g, Buffer, fm), fm, o)).out

\* the type t is read by a template that compares the length announced
\* with a limit or with the length of an array
IsBounded(t) == t.kind \in {"slice", "array", "map"} \/ t = PtrTo(bigIntType)

\* the header, or headers, of a field of type t announcing the length w
AnnounceAs(t, w) ==
  CASE t.kind \in {"slice", "array"} ->
         CborEncodeMajorType(
           IF t.elem.kind = "uint8" THEN MajByteString ELSE MajArray, w)
    [] t.kind = "map" -> CborEncodeMajorType(MajMap, w)
    [] t = PtrTo(bigIntType) ->
         CborEncodeMajorType(MajTag, U64(2))
           \o CborEncodeMajorType(MajByteString, w)

\* lengths the template for the type t is to refuse: one more than its
\* limit, 2^63, 2^64 - 1 and, for an array, one less and one more than its
\* length
RefusedLengths(t) ==
  IF t.kind = "array"
  THEN {U64(t.len - 1), U64(t.len + 1), I64Min,
        U64((IF t.elem.kind = "uint8" THEN ByteArrayMaxLen ELSE MaxLength) + 1)}
  ELSE {U64(LimitOf(t) + 1), I64Min, U64Max}

\* the bytes that follow the header in a forged input
Payload == <<0, 0, 0>>

\* inputs for the decoder of the record type n made by other means than the
\* emitted encoder: the bytes of a plain record (target 0), and the bytes
\* of a plain record up to the field `target`, then a header announcing a
\* length to refuse, then a few bytes
Forgeries(g, n, fm, o) ==
  {[target |-> 0, before |-> Encode(n, BaseOf(Named(n)), fm, o).out,
    bytes |-> Encode(n, BaseOf(Named(n)), fm, o).out]}
  \cup UNION
    {{[target |-> j,
       before |-> EncodedBefore(g, BaseOf(Named(n)), j, fm, o),
       bytes |-> EncodedBefore(g, BaseOf(Named(n)), j, fm, o)
                   \o AnnounceAs(FieldType(n, g.Fields[j].Name), w) \o Payload] :
        w \in RefusedLengths(FieldType(n, g.Fields[j].Name))} :
     j \in {i \in 1..Len(g.Fields) : IsBounded(FieldType(n, g.Fields[i].Name))}}

\* a forged input reaches the decoder; ei is the field it aims at, and the
\* sink holds the bytes before the header of that field
Forge ==
  /\ pc = "generated"
  /\ typ \in GoodTypes
  /\ \E x \in Forgeries(gti, typ, form, <<<<97>>, <<97, 97>>, <<98>>>>) :
       /\ buf' = x.bytes
       /\ ei' = x.target
       /\ sink' = [Buffer EXCEPT !.out = x.before]
  /\ val' = <<BaseOf(Named(typ))>>
  /\ ord' = <<<<97>>, <<97, 97>>, <<98>>>>
  /\ dst' = Prior(typ)
  /\ pos' = 0
  /\ pc' = "wire"
  /\ UNCHANGED <<typ, gti, form, dtyp, di, dn, lost>>

\* the runs of the decoders on forged inputs
NextForged ==
  \/ DoParseTypeInfo
  \/ GenTupleEncodersForType
  \/ GenMapEncodersForType
  \/ Forge
  \/ UnmarshalBegin
  \/ UnmarshalNext
  \/ UnmarshalReturn

SpecForged == InitBounds /\ [][NextForged]_vars

\* ------------------------------------------- the decoder runs to its end

\* the record types of the runs below
PlainTypes == {"SimpleTypeOne", "Scalars", "FixedArrays"}

\* the runs in which a decoder that has been called goes on until it
\* returns: each statement of UnmarshalCBOR is followed by the next
InitPlain == Init /\ typ \in PlainTypes
\* a round of the decoder is pending: UnmarshalNext is enabled in exactly
\* these states, since a round either advances di or leaves "decoding"
RoundPending == pc = "decoding" /\ di <= dn

\* weak fairness of UnmarshalNext, WF_vars(UnmarshalNext), with the enabling
\* condition of the round written out as RoundPending
FairUnmarshalNext == []<>(~RoundPending) \/ []<><<UnmarshalNext>>_vars

SpecReturns ==
  /\ InitPlain
  /\ [][Next]_vars
  /\ WF_vars(UnmarshalBegin)
  /\ FairUnmarshalNext
  /\ WF_vars(UnmarshalReturn)

\* ------------------------------------------------- the scratch buffer
\* The emitted encoders write headers through a buffer of 9 bytes named
\* scratch, which MarshalCBOR declares at its top.

\* gti.NeedsScratch()
NeedsScratch(g) ==
  \E i \in 1..Len(g.Fields) :
    \/ g.Fields[i].Type.kind \in
         {"string", "uint64", "int64", "uint8", "array", "slice", "map"}
    \/ g.Fields[i].Type.kind = "struct"
         /\ (g.Fields[i].Type = bigIntType \/ g.Fields[i].Type = cidType)

\* whether the statements that the emitter of the field f writes name
\* scratch: the MajorType helper expands to
\* cbg.WriteMajorTypeHeaderBuf(scratch, ...), a cid is written by
\* cbg.WriteCidBuf(scratch, ...); a big.Int is written by
\* cbg.CborWriteHeader(w, ...), a bool by cbg.WriteBool(w, ...) and any other
\* record by its MarshalCBOR(w)
EmitsScratch(f) ==
  CASE f.Type.kind = "string" -> TRUE
    [] f.Type.kind = "struct" -> f.Type = cidType
    [] f.Type.kind \in {"uint64", "uint8", "int64"} -> TRUE
    [] f.Type.kind \in {"array", "slice"} -> TRUE
    [] f.Type.kind = "bool" -> FALSE
    [] f.Type.kind = "map" -> TRUE

\* the emitted MarshalCBOR of the form fm declares scratch: under
\* {{ if .NeedsScratch }} in tuple form, always in named-map form
DeclaresScratch(g, fm) == IF fm = "tuple" THEN NeedsScratch(g) ELSE TRUE

\* a statement of the emitted MarshalCBOR of the form fm names scratch: one
\* emitted for a field, or, in named-map form, the one that writes the key
\* of a field (emitCborMarshalStringField)
ReferencesScratch(g, fm) ==
  \E i \in 1..Len(g.Fields) : fm = "map" \/ EmitsScratch(g.Fields[i])

\* ------------------------------------------------------------- the claims

\* the bytes the encoder wrote are the bytes the decoder reads
Faithful == buf = sink.out

\* the decoder of the run has returned
Returned == pc \in {"decoded", "decfailed"}

\* the record types whose fields are all of the shapes of the round trip
\* (Text, U64, U8, I64, Bool, Bytes, FixedBytes, Sequence, FixedSequence,
\* Map, Record, BigInt, Cid, Optional of U64, Record and Cid); the sequence
\* of optional records is looked at on its own
RoundTripTypes == GoodTypes \ {"DeferredContainer", "Optionals"}

\* the record encoded holds a nil *big.Int: it is written as the number zero
\* and read back as zero
NilBigInt == typ = "Bigs" /\ val # <<>> /\ val[1].Int = <<>>

\* C1: round trip. When the emitted decoder of a record type has run on the
\* bytes that the emitted encoder of the same type wrote for a record r, in
\* tuple form or in named-map form, it has returned no error and the
\* destination holds a record equal to r (a record with a nil *big.Int, which
\* is equal to zero on the wire, is left out).
C1_RoundTrip ==
  (Returned /\ typ \in RoundTripTypes /\ dtyp = typ /\ val # <<>> /\ Faithful
     /\ ~NilBigInt)
    => (pc = "decoded" /\ dst = val[1])

\* the first header of the bytes b is not that of an array of n elements
NotArrayOf(b, n) ==
  LET Got(h) == h.err \/ h.maj # MajArray \/ h.extra # U64(n)
  IN  Got(CborReadHeader(b, 0))

\* the number of schema fields of the record type named n
FieldCount(n) == Len(ParseTypeInfo(n).Fields)

\* the tuple encoder has written a record: the first bytes of the sink are
\* the header of an array of exactly as many elements as the schema has fields
TupleHeaderWritten ==
  (form = "tuple" /\ val # <<>> /\ ~sink.err)
    => ~NotArrayOf(sink.out, Len(HostType(typ)))

\* the tuple decoder was given bytes whose first header is not that of an
\* array of as many elements as its schema has fields: it returns an error,
\* having read that header and no more, and no field of the destination is set
TupleHeaderChecked ==
  (form = "tuple" /\ pc \in {"decoding", "decoded", "decfailed"}
     /\ NotArrayOf(buf, FieldCount(dtyp)))
    => (/\ pc = "decfailed"
        /\ dst = ZeroOf(Named(dtyp))
        /\ pos = CborReadHeader(buf, 0).pos)

\* C2: tuple-form length discipline. The tuple encoder of a record type of N
\* schema fields writes first the header of an array of exactly N elements,
\* and the tuple decoder returns an error before it decodes any field when
\* the first header of its input is not an array header or announces a
\* length other than N, smaller or larger.
C2_TupleLengthDiscipline == TupleHeaderWritten /\ TupleHeaderChecked

\* the tuple decoder has refused an input that is the encoding of a record
\* with the length in its array header one more than the schema has fields
C2_Witness ==
  /\ pc = "decfailed"
  /\ form = "tuple"
  /\ val # <<>>
  /\ dtyp = typ
  /\ Len(buf) = Len(sink.out)
  /\ buf[1] = sink.out[1] + 1
  /\ Tail(buf) = Tail(sink.out)
  /\ dst = ZeroOf(Named(dtyp))

RECURSIVE PairKeysFrom(_, _, _)
\* the keys of the next n pairs of the bytes b after pos, in the order they
\* are in b: each key is a text string, each value is passed over
PairKeysFrom(b, p, n) ==
  LET Value(k, v) ==
        IF v.err THEN <<k.v>> ELSE <<k.v>> \o PairKeysFrom(b, v.pos, n - 1)
      Key(k) == IF k.err THEN <<>> ELSE Value(k, SkipItems(b, k.pos, 1))
  IN  IF n = 0 THEN <<>> ELSE Key(ReadString(b, p))

\* the keys of the map whose header is at pos in b, in the order they are in b
WireKeys(b, p) ==
  LET Got(h) ==
        IF h.err \/ h.maj # MajMap \/ ~IsSmall(h.extra) THEN <<>>
        ELSE PairKeysFrom(b, h.pos, ToNat(h.extra))
  IN  Got(CborReadHeader(b, p))

\* each key is less than the next, as byte sequences
IsAscending(keys) == \A i \in 1..(Len(keys) - 1) : StrLess(keys[i], keys[i + 1])

\* the exported fields of the record type named n, as they are declared
DeclaredFields(n) == SelectSeq(HostType(n), LAMBDA hf : nameIsExported(hf.Name))

\* the wire keys of the fields of the record type named n, in the order
\* the fields are declared in
DeclaredKeys(n) ==
  [i \in 1..Len(DeclaredFields(n)) |-> Utf8(ParseField(DeclaredFields(n)[i]).MapKey)]

\* the named-map encoder has written a record and returned
MapEncoded == form = "map" /\ pc = "encoded" /\ val # <<>>

AnyKeyOrder == val # <<>> /\ buf \in {sink.out, EncodeRotated(typ, val[1], ord)}

\* what a decoder of the record type d is to make of the record r of the
\* type n: the fields the two have in common as they are in r, the others zero
Projected(n, r, d) ==
  [fn \in FieldNames(d) |->
     IF fn \in FieldNames(n) THEN r[fn] ELSE ZeroOf(FieldType(d, fn))]

\* C4: named-map compatibility. The named-map decoder of either version of
\* a record, given a record that the encoder of the other version (or of the
\* same) wrote, with its pairs in any order, returns no error; it leaves the
\* fields that are not in the input zero, whatever the destination held
\* before; it passes over exactly the value of each key it does not know,
\* ending at the end of the input, and the fields it knows are as encoded.
C4_NamedMapCompat ==
  (Returned /\ form = "map" /\ typ \in Versions /\ AnyKeyOrder)
    => (/\ pc = "decoded"
        /\ dst = Projected(typ, val[1], dtyp)
        /\ pos = Len(buf)
        /\ ~lost)

\* the decoder of SimpleStructV1 has read a record of SimpleStructV2 whose
\* new fields are not zero, with the pairs in another order than its own
C4_Witness ==
  /\ pc = "decoded"
  /\ form = "map"
  /\ typ = "SimpleStructV2"
  /\ dtyp = "SimpleStructV1"
  /\ val # <<>>
  /\ val[1].NewStr # <<>>
  /\ buf = EncodeRotated(typ, val[1], ord)
  /\ buf # sink.out
  /\ dst = Projected(typ, val[1], dtyp)

\* the decoder of SimpleStructV2 has read a record of SimpleStructV1 into a
\* destination that held other values: the new fields are zero
C4_WitnessForward ==
  /\ pc = "decoded"
  /\ form = "map"
  /\ typ = "SimpleStructV1"
  /\ dtyp = "SimpleStructV2"
  /\ val # <<>>
  /\ Prior("SimpleStructV2").NewStr # <<>>
  /\ dst.NewStr = <<>>

\* C5: the maxlen annotation. A record of BigField, whose field LargeBytes is
\* declared with cborgen:"maxlen=10000000", is encoded in named-map form
\* with the one pair under the declared name of the field, "LargeBytes".
C5_WireKeyIsDeclaredName ==
  (MapEncoded /\ typ = "BigField") => WireKeys(sink.out, 0) = <<Utf8("LargeBytes")>>

\* the optional fields of the record type of gti: the pointers to a uint64,
\* to a record, to a cid.Cid and to a Deferred
OptionalFields(g) ==
  {i \in 1..Len(g.Fields) : g.Fields[i].Pointer /\ g.Fields[i].Type # bigIntType}

\* C6: optional fields. When the decoder of a record type has read, without
\* error, the bytes its encoder wrote for a record, every optional field that
\* was absent in the record is absent in the destination, and every one that
\* was present is present with its value.
C6_OptionalNull ==
  (pc = "decoded" /\ dtyp = typ /\ val # <<>> /\ Faithful)
    => \A i \in OptionalFields(gti) :
         dst[gti.Fields[i].Name] = val[1][gti.Fields[i].Name]

\* the bytes of an int64 on the wire, from the definition of the encoding:
\* the values at the ends of the range and around zero, and the ones around
\* the first value that takes a second byte
I64Wire(v) ==
  CASE v = I64Min -> <<59, 127, 255, 255, 255, 255, 255, 255, 255>>
    [] v = U64Not(U64(24)) -> <<56, 24>>
    [] v = I64MinusOne -> <<32>>
    [] v = U64(0) -> <<0>>
    [] v = U64(1) -> <<1>>
    [] v = U64(24) -> <<24, 24>>
    [] v = I64Max -> <<27, 127, 255, 255, 255, 255, 255, 255, 255>>

\* the bytes b end with the bytes w
EndsWith(b, w) ==
  Len(b) >= Len(w) /\ SubSeq(b, Len(b) - Len(w) + 1, Len(b)) = w

\* the encoder has written a record whose last field is an int64 v: the last
\* bytes written are (UnsignedInt, v) or (NegativeInt, -v-1)
I64Encoded ==
  (pc = "encoded" /\ typ \in SignedLast /\ val # <<>>)
    => EndsWith(sink.out, I64Wire(val[1].Signed))

\* the int64 of a record written by the encoder is read back as it was
I64RoundTrip ==
  (Returned /\ typ \in SignedLast /\ dtyp = typ /\ val # <<>> /\ Faithful)
    => (pc = "decoded" /\ dst.Signed = val[1].Signed)

\* the tuple decoder is about to read a field of the kind k
AtFieldOfKind(k) ==
  /\ pc = "decoding"
  /\ form = "tuple"
  /\ di <= dn
  /\ ~ParseTypeInfo(dtyp).Fields[di].Pointer
  /\ ParseTypeInfo(dtyp).Fields[di].Type.kind = k

\* the step of the decoder that reads an int64: an error when the header is
\* not read, is of another major type than UnsignedInt and NegativeInt, or
\* holds 2^63 or more; else the field is the value of the header, or -1 less
\* that value (the complement of its bits)
I64Decoded ==
  LET Got(h) ==
        IF h.err \/ h.maj \notin {MajUnsignedInt, MajNegativeInt} \/ h.extra[1] >= 128
        THEN pc' = "decfailed"
        ELSE /\ pc' = "decoding"
             /\ pos' = h.pos
             /\ dst'[ParseTypeInfo(dtyp).Fields[di].Name]
                  = IF h.maj = MajUnsignedInt THEN h.extra ELSE U64Not(h.extra)
  IN  Got(CborReadHeader(buf, pos))

\* the step of the decoder that reads a uint8: an error when the header is
\* not read, is not an UnsignedInt or holds more than 255; else the field is
\* the value of the header
U8Decoded ==
  LET Got(h) ==
        IF h.err \/ h.maj # MajUnsignedInt \/ ~ZeroPrefix(h.extra, 7)
        THEN pc' = "decfailed"
        ELSE /\ pc' = "decoding"
             /\ pos' = h.pos
             /\ dst'[ParseTypeInfo(dtyp).Fields[di].Name] = h.extra
  IN  Got(CborReadHeader(buf, pos))

\* C7: integer width discipline. The encoder writes an int64 v as
\* (UnsignedInt, v) when v >= 0 and as (NegativeInt, -v-1) when v < 0, in
\* 64-bit arithmetic; the decoder of an int64 takes the major types
\* UnsignedInt and NegativeInt only, returns an error for a header value of
\* 2^63 or more under either, and else gives the value or -1 less the value;
\* the decoder of a uint8 returns an error for a value above 255; and
\* -2^63, -1, 0, 1 and 2^63-1 are read back as they were written.
C7_IntegerWidth ==
  /\ [](I64Encoded /\ I64RoundTrip)
  /\ [][AtFieldOfKind("int64") => I64Decoded]_vars
  /\ [][AtFieldOfKind("uint8") => U8Decoded]_vars

\* the decoder has refused an int64 whose header, an UnsignedInt of nine
\* bytes, holds 2^63 or more
C7_Witness ==
  /\ pc = "decfailed"
  /\ form = "tuple"
  /\ dtyp \in SignedLast
  /\ di = dn
  /\ pos >= 9
  /\ CborReadHeader(buf, pos - 9).maj = MajUnsignedInt
  /\ ~CborReadHeader(buf, pos - 9).err
  /\ CborReadHeader(buf, pos - 9).extra[1] >= 128

\* the encoder has written a record with a map: the header of the map holds
\* the number of its entries, and the keys follow in ascending order
MapKeysAscending ==
  (pc = "encoded" /\ typ = "Maps" /\ form = "tuple" /\ val # <<>>)
    => LET Got(keys) ==
             /\ Len(keys) = Cardinality(DOMAIN val[1].M)
             /\ {keys[i] : i \in 1..Len(keys)} = DOMAIN val[1].M
             /\ IsAscending(keys)
       IN  Got(WireKeys(sink.out, 1))

\* the bytes written for a record are the bytes any other run writes for
\* it, whatever the order in which the run ranges over the keys of its maps
SameBytesAnyOrder ==
  (pc = "encoded" /\ val # <<>>)
    => \A o \in Orders : Encode(typ, val[1], form, o).out = sink.out

\* C8: canonical map ordering. The encoder writes a map as the Map header
\* with the number of entries and then the entries in ascending order of the
\* bytes of their keys; so the bytes written for a record do not depend on
\* the order in which its maps were built or are ranged over, and encoding
\* the same record again gives the same bytes.
C8_CanonicalMapOrder == MapKeysAscending /\ SameBytesAnyOrder

\* a record with a map of three keys has been encoded in a run that ranges
\* over the keys in descending order
C8_Witness ==
  /\ pc = "encoded"
  /\ typ = "Maps"
  /\ form = "tuple"
  /\ val # <<>>
  /\ Cardinality(DOMAIN val[1].M) = 3
  /\ ord[1] = <<98>>
  /\ WireKeys(sink.out, 1) = <<<<97>>, <<97, 97>>, <<98>>>>

\* C9: error propagation. When the emitted decoder has returned without an
\* error, no error was raised while it ran.
C9_NoErrorDropped == pc = "decoded" => ~lost

\* C10: generation-time rejection. For a record type with a field that is a
\* pointer to a string, a uint8, an int64, a bool, a []byte, a slice or a
\* map, a pointer to a pointer, a map whose key is not a string, or a float,
\* a complex or a channel, each of GenTupleEncodersForType and
\* GenMapEncodersForType returns an error.
C10_Refused == (typ \in BadTypes /\ form # "none") => pc = "refused"


\* the value v of a field of type t is longer than the ceiling the claim
\* gives for its shape
OverCeiling(t, v) ==
  CASE t.kind = "string" -> Len(v) > 8192
    [] t.kind = "slice" ->
         IF t.elem.kind = "uint8" THEN Len(v) > 2097152 ELSE Len(v) > 8192
    [] t.kind = "map" -> Cardinality(DOMAIN v) > 4096
    [] t = PtrTo(bigIntType) -> v # <<>> /\ Len(v[1].mag) > 256
    [] OTHER -> FALSE

\* the fields of the record being encoded that are over their ceiling
OverFields ==
  {j \in 1..Len(gti.Fields) :
     OverCeiling(FieldType(typ, gti.Fields[j].Name), val[1][gti.Fields[j].Name])}

\* what a sink that takes every byte holds when the encoder comes to the
\* j-th field: the frame, the fields before and, in named-map form, the key
WrittenBefore(j) == EncodedBefore(gti, val[1], j, form, ord)

\* C11: encode-side bounds. While the emitted encoder runs on a record with
\* a field over its ceiling, it never gets past that field and never
\* returns success; when it has failed at that field, the sink holds what
\* it held when the encoder came to the field: neither the header nor the
\* payload of the field has been written.
C11_EncodeBounds ==
  (pc \in {"encoding", "encfailed", "encoded"} /\ val # <<>>) =>
    \A j \in OverFields :
      /\ pc # "encoded"
      /\ ei <= j
      /\ (pc = "encfailed" /\ ei = j /\ sink.cap = NoCap) =>
           sink.out = WrittenBefore(j)


\* the header read at p in the forged input, for a field of type t: for a
\* big.Int, the header after the tag
AnnouncedAt(t, p) ==
  LET Second(h) == CborReadHeader(buf, h.pos)
  IN  IF t = PtrTo(bigIntType) THEN Second(CborReadHeader(buf, p))
      ELSE CborReadHeader(buf, p)

\* the length w announced for a field of type t is one the claim says the
\* decoder refuses
TooLong(t, w) ==
  CASE t.kind \in {"slice", "array"} ->
         \/ U64GreaterNat(w, IF t.elem.kind = "uint8" THEN 2097152 ELSE 8192)
         \/ (t.kind = "array" /\ w # U64(t.len))
    [] t.kind = "map" -> U64GreaterNat(w, 4096)
    [] t = PtrTo(bigIntType) -> U64GreaterNat(w, 256)
    [] OTHER -> FALSE

\* the decoder, given an input whose field ei announces a length to refuse,
\* has stopped at that field with nothing read after the header and the
\* field of the destination as *t = T{} left it
RefusedAtHeader(t, h) ==
  (~h.err /\ TooLong(t, h.extra)) =>
    /\ pc # "decoded"
    /\ di <= ei
    /\ pc = "decfailed" =>
         /\ di = ei
         /\ pos = h.pos
         /\ dst[gti.Fields[ei].Name] = ZeroOf(t)

\* C12: decode-side bounds. On an input in which the header of a Bytes,
\* FixedBytes, Sequence, FixedSequence, Map or BigInt field announces a
\* length over the ceiling of the field, or for a fixed array a length
\* other than the array's, the emitted decoder returns an error at that
\* field, having read nothing after the header and stored nothing in the
\* field.
C12_DecodeBounds ==
  (pc \in {"decoding", "decfailed", "decoded"} /\ ei > 0) =>
    RefusedAtHeader(FieldType(typ, gti.Fields[ei].Name),
                    AnnouncedAt(FieldType(typ, gti.Fields[ei].Name),
                                Len(sink.out)))

\* the decoder has refused a map field announcing 4097 entries, in named-map
\* form, with the bytes after the header unread
C12_Witness ==
  /\ pc = "decfailed"
  /\ form = "map"
  /\ ei > 0
  /\ di = ei
  /\ gti.Fields[ei].Type.kind = "map"
  /\ AnnouncedAt(FieldType(typ, gti.Fields[ei].Name), Len(sink.out)).extra = U64(4097)
  /\ pos = Len(buf) - Len(Payload)


\* the name is that of an exported field: it begins with an upper-case
\* letter
BeginsUpper(name) == Utf8(name)[1] \in 65..90

RECURSIVE ExportedFrom(_, _)
\* the names of the exported fields of hfs from the i-th, in the order of
\* declaration
ExportedFrom(hfs, i) ==
  IF i > Len(hfs) THEN <<>>
  ELSE (IF BeginsUpper(hfs[i].Name) THEN <<hfs[i].Name>> ELSE <<>>)
       \o ExportedFrom(hfs, i + 1)

\* the names of the fields of the schema, in its order
SchemaNames(g) == [i \in 1..Len(g.Fields) |-> g.Fields[i].Name]

\* C13: unexported fields are invisible. Once ParseTypeInfo has run, the
\* fields of the schema are the exported fields of the record type in the
\* order of declaration, and the frames of the two forms count them alone.
C13_UnexportedInvisible ==
  pc # "start" =>
    /\ SchemaNames(gti) = ExportedFrom(HostType(typ), 1)
    /\ TupleHeader(gti)
         = CborEncodeMajorType(MajArray, U64(Len(ExportedFrom(HostType(typ), 1))))
    /\ MapHeader(gti)
         = CborEncodeMajorType(MajMap, U64(Len(ExportedFrom(HostType(typ), 1))))


\* the field j of the destination is as *t = T{} left it
Untouched(j) ==
  dst[ParseTypeInfo(dtyp).Fields[j].Name]
    = ZeroOf(FieldType(dtyp, ParseTypeInfo(dtyp).Fields[j].Name))

\* the states of a tuple decoder: in AwaitField(di - 1) the fields from the
\* di-th are untouched; after an error the fields after the failing one
\* are (all of them, when the frame was refused: dn = 0); success is
\* reported in Done only
TupleStates ==
  (form = "tuple" /\ pc \in {"decoding", "decfailed", "decoded"}) =>
    /\ pc = "decoding" =>
         /\ di \in 1..(FieldCount(dtyp) + 1)
         /\ dn = FieldCount(dtyp)
         /\ \A j \in di..FieldCount(dtyp) : Untouched(j)
    /\ pc = "decfailed" =>
         \A j \in (IF dn = 0 THEN 1 ELSE di + 1)..FieldCount(dtyp) : Untouched(j)
    /\ pc = "decoded" => (di = FieldCount(dtyp) + 1 /\ dn = FieldCount(dtyp))

\* the steps of a tuple decoder: from AwaitFrame to AwaitField(0) or to an
\* error; from AwaitField(i) to AwaitField(i + 1) or to an error, with no
\* field but the i-th assigned and the reader not moved back; from
\* AwaitField(N) to Done; and after an error or Done, nothing
TupleSteps ==
  form = "tuple" =>
    /\ pc = "wire" =>
         \/ pc' = "decoding" /\ di' = 1 /\ pos' > pos
         \/ pc' = "decfailed"
    /\ (pc = "decoding" /\ di <= dn) =>
         /\ \/ pc' = "decoding" /\ di' = di + 1 /\ pos' > pos
            \/ pc' = "decfailed" /\ di' = di /\ pos' >= pos
         /\ \A j \in 1..FieldCount(dtyp) :
              j # di => dst'[ParseTypeInfo(dtyp).Fields[j].Name]
                          = dst[ParseTypeInfo(dtyp).Fields[j].Name]
    /\ (pc = "decoding" /\ di > dn) =>
         (pc' = "decoded" /\ dst' = dst /\ pos' = pos)
    /\ pc \in {"decfailed", "decoded"} =>
         (pc' = pc /\ pos' = pos /\ dst' = dst)

\* C14: the tuple decoder state machine. A tuple decode goes AwaitFrame,
\* AwaitField(0), ..., AwaitField(N - 1), Done, the fields taken in the
\* order of declaration and each once; the first failing step ends it with
\* an error, nothing more read and no later field assigned; success is
\* reported in Done only; and on every input the decoder returns.
C14_TupleStateMachine ==
  /\ []TupleStates
  /\ [][TupleSteps]_vars
  /\ (form = "tuple" /\ pc = "wire") ~> (pc \in {"decoded", "decfailed"})

\* a tuple decoder has failed at its third field of four, after two fields
\* that it assigned
C14_Witness ==
  /\ form = "tuple"
  /\ pc = "decfailed"
  /\ dn = 4
  /\ di = 3
  /\ ~Untouched(1)
  /\ ~Untouched(2)
  /\ pos < Len(buf)


\* the fields of the schema g that are sequences of optional records
\* ([]*T for a record type T)
OptionalSequences(g) ==
  {i \in 1..Len(g.Fields) :
     /\ g.Fields[i].Type.kind = "slice"
     /\ g.Fields[i].Type.elem.kind = "ptr"
     /\ g.Fields[i].Type.elem.elem.kind = "struct"}

\* the record encoded has an absent element in a sequence of optional records
AbsentElement ==
  /\ val # <<>>
  /\ \E i \in OptionalSequences(gti) :
       \E j \in 1..Len(val[1][gti.Fields[i].Name]) :
         val[1][gti.Fields[i].Name][j] = <<>>

\* C15: sequences of optional records. When the decoder of a record type
\* with a sequence of optional records has run on the bytes its encoder
\* wrote without error for a record, it has accepted them, and each
\* sequence of the destination is as long as the one encoded, with an
\* absent element wherever the one encoded has an absent element.
C15_OptionalElements ==
  (Returned /\ dtyp = typ /\ val # <<>> /\ Faithful /\ ~sink.err
     /\ OptionalSequences(gti) # {})
    => /\ pc = "decoded"
       /\ \A i \in OptionalSequences(gti) :
            /\ Len(dst[gti.Fields[i].Name]) = Len(val[1][gti.Fields[i].Name])
            /\ \A j \in 1..Len(val[1][gti.Fields[i].Name]) :
                 val[1][gti.Fields[i].Name][j] = <<>>
                   => dst[gti.Fields[i].Name][j] = <<>>


\* C16: the declaration of scratch matches its use. For every record type
\* whose codec has been emitted, in tuple form and in named-map form, the
\* emitted MarshalCBOR declares scratch exactly when one of its statements
\* names scratch: no scratch is declared and unused, or used and undeclared.
C16_ScratchMatchesUse ==
  pc = "generated" => (DeclaresScratch(gti, form) <=> ReferencesScratch(gti, form))

====
